---------------------------- MODULE Spec2Model ----------------------------
(***************************************************************************)
(* Job queue, worker pool and case processor of the UniCourt automation    *)
(* back end (app/api/routers/cases.py, app/workers/case_worker.py,         *)
(* app/services/case_processor.py, app/services/unicourt_handler.py,       *)
(* app/db/crud.py).                                                        *)
(*                                                                         *)
(* Scheduling model: one asyncio event loop.  A step of the model is the   *)
(* code a coroutine runs between two suspension points; synchronous code   *)
(* (all crud calls, shutil, an uncontended asyncio.Lock, a put on the      *)
(* unbounded queue) never yields.  Suspension points kept apart are:       *)
(*   - asyncio.wait_for(queue.get(), 1.0) in the worker: the get runs in a *)
(*     child task, so the entry leaves the queue before the worker itself  *)
(*     resumes (Dequeue, then Pickup);                                     *)
(*   - acquiring active_cases_lock while another task holds it;            *)
(*   - asyncio.sleep(0.1) inside the lock on the re-queue path;            *)
(*   - every awaited call of the page automation and extraction services.  *)
(***************************************************************************)
EXTENDS Integers, Sequences, FiniteSets, TLC

\* ------------------------------------------------------------------ bounds
MaxId == 2
MaxBatch == 1
MaxPending == 1
MaxBurst == 2

\* ------------------------------------------------------- program constants
MAX_CONCURRENT_TASKS == 2
max_retries == 2

NULL == "NULL"
Keys == {"k1", "k2"}
RawKeys == {"k1", " k1 ", "k2", "  "}
Workers == 1 .. MAX_CONCURRENT_TASKS
Ids == 1 .. MaxId

\* str.strip() on the submitted case_number_for_db_id
Strip(s) ==
  CASE s = " k1 " -> "k1"
    [] s = "  "   -> ""
    [] OTHER      -> s

\* CaseStatusEnum
QUEUED == "Queued"
PROCESSING == "Processing"
COMPLETED_SUCCESSFULLY == "Completed_All_Data_Retrieved"
COMPLETED_MISSING_DATA == "Completed_Missing_Data"
COMPLETED_WITH_ERRORS == "Completed_With_Errors"
CASE_NOT_FOUND_ON_UNICOURT == "Case_Not_Found_By_Name_And_Number"
VOLUNTARY_DISMISSAL_FOUND_SKIPPED == "Voluntary_Dismissal_Found_Skipped"
NO_FJ_NO_COMPLAINT_PDFS_FOUND == "No_FJ_No_Complaint_PDFs_Found"
SESSION_ERROR == "Failed_Initial_Login_Or_Session"
WORKER_ERROR == "Generic_Case_Error"

\* DocumentProcessingStatusEnum
IDENTIFIED_FOR_PROCESSING == "Identified_For_Processing"
SKIPPED_REQUIRES_PAYMENT == "Retrieval_Fee"
ORDERING_COMPLETED == "Ordering_Completed"
ORDERING_FAILED == "Ordering_Failed"
DOWNLOAD_SUCCESS == "Download_Success"
DOWNLOAD_FAILED == "Download_Failed"
SKIPPED_PROCESSING_NOT_NEEDED == "Skipped_Processing_Not_Needed"
LLM_PREPARATION_FAILED == "LLM_Failed_To_Turn_Doc_Into_Images"
LLM_PROCESSING_ERROR == "LLM_Processing_Error"
LLM_EXTRACTION_FAILED == "LLM_Required_Infos_Not_Found"
LLM_EXTRACTION_SUCCESS == "LLM_Extraction_Success"
GENERIC_PROCESSING_ERROR == "Generic_Processing_Error"

\* DocumentTypeEnum
FINAL_JUDGMENT == "FJ"
COMPLAINT == "Complaint"
UNKNOWN == "Unknown"

VARIABLES
  queue,          \* app.state.case_processing_queue: <<[id, key]>>
  active,         \* app.state.actively_processing_cases
  count,          \* app.state.active_processing_count
  lockHolder,     \* worker holding active_cases_lock across a suspension, 0 = none
  lockQ,          \* FIFO of tasks waiting for active_cases_lock (0 = a submit request)
  shutting_down,  \* app.state.shutting_down
  cases,          \* rows of table "cases"
  tempDirs,       \* case keys whose temp_case_files/<key> directory exists
  reqs,           \* submit requests suspended at "async with active_cases_lock"
  resp,           \* response sent by the step just taken (NoResponse if none)
  lifespan,       \* position of lifespan_manager after its yield
  wk              \* per worker: position and locals of background_processor_worker

vars == <<queue, active, count, lockHolder, lockQ, shutting_down, cases,
          tempDirs, reqs, resp, lifespan, wk>>


\* ------------------------------------------------------------ small helpers
Max(S) == CHOOSE x \in S : \A y \in S : y <= x

RECURSIVE SeqToSet(_)
SeqToSet(s) == IF s = <<>> THEN {} ELSE {Head(s)} \cup SeqToSet(Tail(s))

\* ------------------------------------------------------------- table "cases"
\* What a query returns when no row matches (.first() is None).
NoCase == [id |-> 0]

\* A fresh row as crud.create_case builds it: QUEUED, empty summary, every
\* extracted column NULL.
NewCase(id, key, is_business, creditor_type) ==
  [id |-> id,
   case_number |-> key,
   is_business |-> is_business,
   creditor_type |-> creditor_type,
   status |-> QUEUED,
   original_creditor_name_from_doc |-> NULL,
   original_creditor_name_source_doc_title |-> NULL,
   creditor_address_from_doc |-> NULL,
   creditor_address_source_doc_title |-> NULL,
   creditor_registration_state_from_doc |-> NULL,
   creditor_registration_state_source_doc_title |-> NULL,
   associated_parties |-> {},
   associated_parties_data |-> <<>>,
   processed_documents_summary |-> <<>>]

get_case_by_case_number(db, case_number) ==
  IF \E c \in db : c.case_number = case_number
    THEN CHOOSE c \in db : c.case_number = case_number
    ELSE NoCase

\* crud.get_case_by_id: called by the worker (case_worker.py:78); crud.py does
\* not define it.  Taken to be the lookup by primary key, like the other
\* queries of crud.py.
get_case_by_id(db, case_id) ==
  IF \E c \in db : c.id = case_id
    THEN CHOOSE c \in db : c.id = case_id
    ELSE NoCase

\* INTEGER PRIMARY KEY of SQLite: the next rowid is the largest one in the
\* table plus one, so the id of a deleted last row is handed out again.
NextRowId(db) == IF db = {} THEN 1 ELSE Max({c.id : c \in db}) + 1

delete_case_by_id(db, case_id) == {c \in db : c.id # case_id}

update_case_status(db, case_id, status) ==
  {IF c.id = case_id THEN [c EXCEPT !.status = status] ELSE c : c \in db}

\* The attribute read case_data.creditor_type.value in crud.create_case:
\* it exists on an enum member and raises AttributeError on a plain str.
HasValueAttr(creditor_type) == creditor_type.kind = "enum"

\* crud.create_case.  Result: [raised, db, case].
create_case(db, case_data) ==
  LET key == Strip(case_data.case_number_for_db_id) IN
  IF ~HasValueAttr(case_data.creditor_type)
    THEN [raised |-> TRUE, db |-> db, case |-> NoCase]
  ELSE IF get_case_by_case_number(db, key) # NoCase
    THEN [raised |-> FALSE, db |-> db,
          case |-> get_case_by_case_number(db, key)]
  ELSE LET c == NewCase(NextRowId(db), key, case_data.is_business,
                        case_data.creditor_type.value) IN
       [raised |-> FALSE, db |-> db \cup {c}, case |-> c]


\* ---------------------------------------------------------- submit endpoint
\* creditor_type of a submitted case: the request model declares a plain str
\* (models_api/cases.py:11); crud.create_case is written for an enum member.
CreditorTypeInputs ==
  {[kind |-> "str", value |-> "Plaintiff"],
   [kind |-> "enum", value |-> "Plaintiff"]}

\* models_api/cases.py:6-11, the fields the model follows.
CaseSubmitDetail(raw, business) ==
  [case_number_for_db_id : raw, is_business : business,
   creditor_type : CreditorTypeInputs]

PayloadsOf(details) == UNION {[1 .. n -> details] : n \in 1 .. MaxBatch}

NoResponse == [http |-> 0, submitted_cases |-> 0,
               deleted_and_resubmitted_cases |-> 0,
               already_queued_or_processing |-> 0, current_queue_size |-> 0]

LockFree == lockHolder = 0 /\ lockQ = <<>>

\* One iteration of "for case_detail in payload.cases" (cases.py:93-135) on
\* the loop state st; st.raised stops the loop (the exception leaves the
\* handler).
SubmitOne(st, case_detail, active_snapshot) ==
  LET case_num == Strip(case_detail.case_number_for_db_id) IN
  IF case_num = "" THEN st
  ELSE IF case_num \in st.seen THEN st
  ELSE IF case_num \in st.qnums \/ case_num \in active_snapshot
    THEN [st EXCEPT !.seen = @ \cup {case_num}, !.skipped = @ + 1]
  ELSE
    LET existing == get_case_by_case_number(st.db, case_num)
        db1 == IF existing # NoCase
                 THEN delete_case_by_id(st.db, existing.id) ELSE st.db
        dirs1 == IF existing # NoCase THEN st.dirs \ {case_num} ELSE st.dirs
        replaced1 == IF existing # NoCase THEN st.replaced + 1 ELSE st.replaced
        made == create_case(db1, case_detail)
    IN IF made.raised
         THEN [st EXCEPT !.seen = @ \cup {case_num}, !.db = db1,
                         !.dirs = dirs1, !.replaced = replaced1,
                         !.raised = TRUE]
         ELSE [st EXCEPT !.seen = @ \cup {case_num}, !.db = made.db,
                         !.dirs = dirs1, !.replaced = replaced1,
                         !.new = @ + 1,
                         !.q = Append(@, [id |-> made.case.id,
                                          key |-> made.case.case_number]),
                         !.qnums = @ \cup {case_num}]

RECURSIVE SubmitLoop(_, _, _, _)
SubmitLoop(st, payload, i, active_snapshot) ==
  IF i > Len(payload) \/ st.raised THEN st
  ELSE SubmitLoop(SubmitOne(st, payload[i], active_snapshot), payload, i + 1,
                  active_snapshot)

\* The body of submit_cases_for_processing after both snapshots are taken;
\* max_id bounds the row ids.
SubmitBodyUpTo(payload, qnums, active_snapshot, max_id) ==
  LET st0 == [db |-> cases, dirs |-> tempDirs, q |-> queue, qnums |-> qnums,
              seen |-> {}, new |-> 0, replaced |-> 0, skipped |-> 0,
              raised |-> FALSE]
      st == SubmitLoop(st0, payload, 1, active_snapshot)
  IN /\ \A c \in st.db : c.id <= max_id
     /\ cases' = st.db
     /\ tempDirs' = st.dirs
     /\ queue' = st.q
     /\ resp' = IF st.raised
                  THEN [NoResponse EXCEPT !.http = 500]
                  ELSE [http |-> 202, submitted_cases |-> st.new,
                        deleted_and_resubmitted_cases |-> st.replaced,
                        already_queued_or_processing |-> st.skipped,
                        current_queue_size |-> Len(st.q)]

SubmitBody(payload, qnums, active_snapshot) ==
  SubmitBodyUpTo(payload, qnums, active_snapshot, MaxId)

QueueCaseNumbers(q) == {q[i].key : i \in 1 .. Len(q)}

\* POST /submit.  The queue snapshot is taken first; the active-set snapshot
\* is taken under active_cases_lock, which suspends the request when the
\* lock is held or has waiters.  max_id bounds the row ids.
SubmitUpTo(payload, max_pending, max_id) ==
  /\ IF shutting_down
       THEN /\ resp' = [NoResponse EXCEPT !.http = 503]
            /\ UNCHANGED <<queue, active, count, lockHolder, lockQ,
                           shutting_down, cases, tempDirs, reqs, wk,
                           lifespan>>
     ELSE IF LockFree
       THEN /\ SubmitBodyUpTo(payload, QueueCaseNumbers(queue), active, max_id)
            /\ UNCHANGED <<active, count, lockHolder, lockQ, shutting_down,
                           reqs, wk, lifespan>>
     ELSE /\ Len(reqs) < max_pending
          /\ reqs' = Append(reqs, [payload |-> payload,
                                   qnums |-> QueueCaseNumbers(queue)])
          /\ lockQ' = Append(lockQ, 0)
          /\ resp' = NoResponse
          /\ UNCHANGED <<queue, active, count, lockHolder, shutting_down,
                         cases, tempDirs, wk, lifespan>>

\* Submit without the test of lines 80-81: the request is handled whether
\* or not the service is shutting down.
Submit_NoShutdownTest(payload, max_pending) ==
  IF LockFree
    THEN /\ SubmitBody(payload, QueueCaseNumbers(queue), active)
         /\ UNCHANGED <<active, count, lockHolder, lockQ, shutting_down,
                        reqs, wk, lifespan>>
    ELSE /\ Len(reqs) < max_pending
         /\ reqs' = Append(reqs, [payload |-> payload,
                                  qnums |-> QueueCaseNumbers(queue)])
         /\ lockQ' = Append(lockQ, 0)
         /\ resp' = NoResponse
         /\ UNCHANGED <<queue, active, count, lockHolder, shutting_down,
                        cases, tempDirs, wk, lifespan>>

Submit(payload, max_pending) == SubmitUpTo(payload, max_pending, MaxId)

\* A suspended submit request is handed the lock and runs to its end.
SubmitResume ==
  /\ lockHolder = 0 /\ lockQ # <<>> /\ Head(lockQ) = 0
  /\ lockQ' = Tail(lockQ)
  /\ reqs' = Tail(reqs)
  /\ SubmitBody(Head(reqs).payload, Head(reqs).qnums, active)
  /\ UNCHANGED <<active, count, lockHolder, shutting_down, wk, lifespan>>


\* ------------------------------------------------------------- worker state
\* Locals of background_processor_worker and of the process_single_case call
\* it is suspended in.  invocations counts the calls of process_single_case
\* made for the entry at hand (case_worker.py:111); chunks holds the
\* ordering attempts the resolver made (unicourt_handler.py:798-800);
\* taken_in_shutdown tells whether shutting_down was set when the entry at
\* hand came off the queue; cancelled, whether task.cancel() was called on
\* the worker's task; last_close, what the last call of
\* close_worker_browser_resources found and did (empty: no call yet);
\* last_search, the same for search_and_open_case_page.
IdleWorker ==
  [pc |-> "idle", case_id |-> 0, entry_key |-> NULL, case_number |-> NULL,
   db_obj_id |-> 0,
   retry_count |-> 0, invocations |-> 0, chunks |-> <<>>,
   taken_in_shutdown |-> FALSE, cancelled |-> FALSE, last_close |-> <<>>,
   last_search |-> <<>>,
   final_case_status |-> NULL, case_page |-> FALSE,
   targets |-> {}, bundle |-> <<>>, idx |-> 0,
   found_name |-> FALSE, found_addr |-> FALSE, found_reg |-> FALSE,
   found_party |-> {}]

\* case_worker.py:67: the test of the worker's loop, which a worker that
\* ends an iteration reaches without a suspension: with shutting_down set
\* it leaves the loop, otherwise it waits for the next entry (line 71).
LoopTop ==
  IF shutting_down THEN [IdleWorker EXCEPT !.pc = "stopped"] ELSE IdleWorker

\* The shared state as one record, so that the synchronous stretches of code
\* compose as functions; Commit writes a record back to the variables (the
\* record is bound once, so that it is computed once).
Now ==
  [queue |-> queue, active |-> active, count |-> count,
   lockHolder |-> lockHolder, lockQ |-> lockQ, cases |-> cases,
   tempDirs |-> tempDirs, wk |-> wk]

Commit(S) ==
  \E T \in {S} :
    /\ queue' = T.queue
    /\ active' = T.active
    /\ count' = T.count
    /\ lockHolder' = T.lockHolder
    /\ lockQ' = T.lockQ
    /\ cases' = T.cases
    /\ tempDirs' = T.tempDirs
    /\ wk' = T.wk
    /\ resp' = NoResponse
    /\ UNCHANGED <<shutting_down, reqs, lifespan>>

\* OuterExcept without the outer handler: the exception ends the worker task.
OuterExcept_WorkerDies(S, w) ==
  [S EXCEPT !.wk[w] = [IdleWorker EXCEPT !.pc = "stopped"]]

\* case_worker.py:150-152: "except Exception as e_outer": log, sleep 5 s and
\* go back to the top of the loop.  Lines 134-139 are skipped.
OuterExcept(S, w) ==
  [S EXCEPT !.wk[w] = [IdleWorker EXCEPT !.pc = "outer_sleep"]]

\* case_worker.py:134-139 once the retry loop is left: remove the key from
\* the active set under active_cases_lock, then decrement the counter.
ReleaseKey(S, w) ==
  [S EXCEPT !.active = @ \ {S.wk[w].case_number},
            !.count = @ - 1,
            !.wk[w] = LoopTop]

Finish(S, w) ==
  IF S.lockHolder = 0 /\ S.lockQ = <<>>
    THEN ReleaseKey(S, w)
    ELSE [S EXCEPT !.lockQ = Append(@, w),
                   !.wk[w] = [@ EXCEPT !.pc = "release_wait"]]

\* case_worker.py:115-132, the handler of an exception that left
\* process_single_case.  kind is "session" when the message holds
\* "Connection closed" or "Failed to ensure Unicourt session".  db_fault:
\* the write of WORKER_ERROR at line 131 raises.
WorkerExcept(S, w, kind, db_fault) ==
  IF S.wk[w].retry_count < max_retries /\ kind = "session"
    THEN [S EXCEPT !.wk[w] = [@ EXCEPT !.retry_count = @ + 1,
                                       !.pc = "reinit"]]
  ELSE IF db_fault
    THEN OuterExcept(S, w)
  ELSE Finish([S EXCEPT !.cases = update_case_status(@, S.wk[w].case_id,
                                                     WORKER_ERROR)], w)

\* db_models.CreditorTypeEnum(value) at case_processor.py:146.  The enum is
\* imported from app.db.models by the tests and used here, but models.py
\* does not declare it; its members are taken to be the two party roles.
CreditorTypeEnum == {"Plaintiff", "Defendant"}

\* process_single_case from its first line to its first suspension point
\* (case_processor.py:142-208).  db_fault: the write at line 151 raises;
\* dash_ok: the worker's dashboard page is open (line 174).
StartProcessing(S0, w, db_fault, dash_ok, db_fault2) ==
  LET S == [S0 EXCEPT !.wk[w].invocations = @ + 1]
      me == S.wk[w]
      db1 == update_case_status(S.cases, me.case_id, PROCESSING)
      obj == get_case_by_case_number(db1, me.case_number)
      S1 == [S EXCEPT !.cases = db1]
      S2 == [S1 EXCEPT !.tempDirs = @ \cup {me.case_number}]
  IN IF get_case_by_id(S.cases, me.case_id) # NoCase
        /\ get_case_by_id(S.cases, me.case_id).creditor_type
             \notin CreditorTypeEnum
       THEN WorkerExcept(S, w, "other", db_fault2)
     ELSE IF db_fault THEN WorkerExcept(S, w, "other", db_fault2)
     ELSE IF obj = NoCase THEN Finish(S1, w)
     ELSE IF ~dash_ok
       THEN Finish([S2 EXCEPT !.cases = update_case_status(@, me.case_id,
                                                           WORKER_ERROR)], w)
     ELSE [S2 EXCEPT !.wk[w] =
             [@ EXCEPT !.pc = "session",
                       !.db_obj_id = obj.id,
                       !.final_case_status = COMPLETED_WITH_ERRORS,
                       !.case_page = FALSE,
                       !.found_name = obj.original_creditor_name_from_doc # NULL,
                       !.found_addr = obj.creditor_address_from_doc # NULL,
                       !.found_reg = IF obj.is_business
                                       THEN obj.creditor_registration_state_from_doc # NULL
                                       ELSE TRUE,
                       !.found_party =
                          {obj.associated_parties_data[i].name :
                             i \in 1 .. Len(obj.associated_parties_data)}]]

\* LockedSection without the membership test of line 89: the key is entered
\* and processed even when another worker has it in the active set.
LockedSection_NoActiveTest(S, w, db_fault, dash_ok, db_fault2) ==
  StartProcessing([S EXCEPT !.active = @ \cup {S.wk[w].case_number},
                            !.count = @ + 1],
                  w, db_fault, dash_ok, db_fault2)

\* case_worker.py:88-98 with the lock held: re-queue an entry whose key is
\* already active (and sleep 0.1 s inside the lock), else enter the key,
\* count the task and call process_single_case.
LockedSection(S, w, db_fault, dash_ok, db_fault2) ==
  LET me == S.wk[w] IN
  IF me.case_number \in S.active
    THEN [S EXCEPT !.queue = Append(@, [id |-> me.case_id,
                                        key |-> me.case_number]),
                   !.lockHolder = w,
                   !.wk[w] = [@ EXCEPT !.pc = "requeue_sleep"]]
    ELSE StartProcessing([S EXCEPT !.active = @ \cup {me.case_number},
                                   !.count = @ + 1],
                         w, db_fault, dash_ok, db_fault2)


\* ------------------------------------------------------------ worker actions
\* case_worker.py:71: the child task of wait_for takes the head entry.  The
\* worker itself resumes in a later step (Pickup).
Dequeue(w) ==
  /\ wk[w].pc = "idle"
  /\ queue # <<>>
  /\ queue' = Tail(queue)
  /\ wk' = [wk EXCEPT ![w] = [@ EXCEPT !.pc = "dequeued",
                                       !.case_id = Head(queue).id,
                                       !.entry_key = Head(queue).key,
                                       !.taken_in_shutdown = shutting_down]]
  /\ resp' = NoResponse
  /\ UNCHANGED <<active, count, lockHolder, lockQ, shutting_down, cases,
                 tempDirs, reqs, lifespan>>

\* case_worker.py:67,144-146: the get times out and the loop test finds
\* shutting_down set.
WorkerExit(w) ==
  /\ wk[w].pc = "idle"
  /\ shutting_down
  /\ wk' = [wk EXCEPT ![w] = [@ EXCEPT !.pc = "stopped"]]
  /\ resp' = NoResponse
  /\ UNCHANGED <<queue, active, count, lockHolder, lockQ, shutting_down,
                 cases, tempDirs, reqs, lifespan>>

\* case_worker.py:72-95: the worker resumes with the entry, reads the record
\* by id and reaches "async with active_cases_lock".
Pickup(w, db_fault, dash_ok, db_fault2) ==
  /\ wk[w].pc = "dequeued"
  /\ LET rec == get_case_by_id(cases, wk[w].case_id) IN
     IF rec = NoCase
       THEN Commit([Now EXCEPT !.wk[w] = LoopTop])
       ELSE LET S1 == [Now EXCEPT !.wk[w] =
                         [@ EXCEPT !.case_number = rec.case_number]]
            IN IF LockFree
                 THEN Commit(LockedSection(S1, w, db_fault, dash_ok, db_fault2))
                 ELSE Commit([S1 EXCEPT !.lockQ = Append(@, w),
                                        !.wk[w] = [@ EXCEPT !.pc = "lock_wait"]])

\* The lock is handed to the worker that waited for it at line 88.
AcquireAfterWait(w, db_fault, dash_ok, db_fault2) ==
  /\ wk[w].pc = "lock_wait"
  /\ lockHolder = 0
  /\ lockQ # <<>>
  /\ Head(lockQ) = w
  /\ Commit(LockedSection([Now EXCEPT !.lockQ = Tail(@)], w,
                          db_fault, dash_ok, db_fault2))

\* case_worker.py:93-95: the sleep inside the lock ends; "continue" leaves
\* the "async with" and releases the lock.
RequeueWake(w) ==
  /\ wk[w].pc = "requeue_sleep"
  /\ Commit([Now EXCEPT !.lockHolder = 0, !.wk[w] = LoopTop])

\* The lock is handed to the worker that waited for it at line 135.
ReleaseAfterWait(w) ==
  /\ wk[w].pc = "release_wait"
  /\ lockHolder = 0
  /\ lockQ # <<>>
  /\ Head(lockQ) = w
  /\ Commit(ReleaseKey([Now EXCEPT !.lockQ = Tail(@)], w))

\* case_worker.py:152: the 5 s sleep of the outer handler ends.
OuterWake(w) ==
  /\ wk[w].pc = "outer_sleep"
  /\ Commit([Now EXCEPT !.wk[w] = LoopTop])

\* The three close operations of close_worker_browser_resources.
CloseOps == {"page", "context", "browser"}

\* What a call of close_worker_browser_resources finds: the handler's
\* dashboard page reference ("open", "closed" for a page that is_closed(),
\* "none" for None), whether the browser is connected, and the close
\* operations that raise when they are called.  The context exists at both
\* call sites (case_worker.py:26, 159).
CloseInputs ==
  [page : {"open", "closed", "none"}, connected : BOOLEAN,
   raises : SUBSET CloseOps]

\* unicourt_handler.py:220-230.  The page is closed when the reference is
\* set and the page is not closed yet, and the reference is cleared after
\* the close (lines 221-223, in no try); the context close and, for a
\* connected browser, the browser close are each in a try that swallows
\* Exception (lines 224-229).
close_worker_browser_resources(h) ==
  IF h.page = "open" /\ "page" \in h.raises
    THEN [raised |-> TRUE, attempted |-> {"page"},
          dashboard_page_for_worker |-> h.page]
    ELSE [raised |-> FALSE,
          attempted |-> (IF h.page = "open" THEN {"page"} ELSE {})
                          \cup {"context"}
                          \cup (IF h.connected THEN {"browser"} ELSE {}),
          dashboard_page_for_worker |->
            IF h.page = "open" THEN "none" ELSE h.page]

\* case_worker.py:120-126: initialize_browser_resources(retry_count) comes
\* back.  It first closes the resources the worker has (lines 26-27; h: what
\* that call finds); an exception of the close leaves the function and the
\* except clause and takes the worker to its outermost handler.
\* o = "ok": the login succeeded and a new context and dashboard page
\* exist; the worker sleeps 2 s.
\* o = "false": the login or the page creation failed (lines 40-42, 48-50);
\* "continue" goes round the retry loop and calls process_single_case at
\* once, with the handler the worker had, whose dashboard page the close
\* has closed or found closed or missing (case_processor.py:174).
\* o = "raise": the login or the launch raised inside the except clause,
\* which takes the worker to its outermost handler.
Reinit(w, h, o, db_fault, db_fault2) ==
  /\ wk[w].pc = "reinit"
  /\ LET r == close_worker_browser_resources(h)
         closed == [Now EXCEPT !.wk[w].last_close = <<[h |-> h, r |-> r]>>]
         failed == [OuterExcept(Now, w) EXCEPT
                      !.wk[w].last_close = <<[h |-> h, r |-> r]>>]
     IN
     CASE r.raised -> Commit(failed)
       [] ~r.raised /\ o = "ok" ->
            Commit([closed EXCEPT !.wk[w] = [@ EXCEPT !.pc = "retry_sleep"]])
       [] ~r.raised /\ o = "false" ->
            Commit(StartProcessing(closed, w, db_fault, FALSE, db_fault2))
       [] ~r.raised /\ o = "raise" -> Commit(failed)

\* case_worker.py:126,104-111: the 2 s sleep ends, the retry loop comes
\* round and process_single_case is called with the new handler.
RetryWake(w, db_fault, dash_ok, db_fault2) ==
  /\ wk[w].pc = "retry_sleep"
  /\ Commit(StartProcessing(Now, w, db_fault, dash_ok, db_fault2))

\* --------------------------------------------------------- case processor
\* Leaving the try block of process_single_case (return, stop exception or
\* unhandled error): what remains is the finally block, which first awaits
\* the page clean-up.
ToCleanup(S, w, status) ==
  [S EXCEPT !.wk[w] = [@ EXCEPT !.pc = "cleanup",
                                !.final_case_status = status]]

\* case_processor.py:208-212.  o: what ensure_authenticated_session did.
ProcSession(w, o) ==
  /\ wk[w].pc = "session"
  /\ LET me == wk[w] IN
     CASE o = "ok" ->
            Commit([Now EXCEPT !.wk[w] = [@ EXCEPT !.pc = "search"]])
       [] o = "false" ->
            Commit(ToCleanup([Now EXCEPT !.cases =
                       update_case_status(@, me.case_id, SESSION_ERROR)],
                     w, me.final_case_status))
       [] o = "raise" ->
            Commit(ToCleanup(Now, w, WORKER_ERROR))

\* The result rows a search may list.
MaxResults == 2

\* What the portal answers to the searches of one case: whether the search
\* by name and the search by name and number can be performed
\* (_perform_search_on_dashboard returns True), the rows counted after the
\* search by name (at once, and after the delay), after the search by name
\* and number, the rows a search by the case number alone would list, and
\* whether the case page opens when the link is clicked.
SearchInputs ==
  [name_search_ok : BOOLEAN, both_search_ok : BOOLEAN,
   by_name : 0 .. MaxResults, by_name_later : 0 .. MaxResults,
   by_both : 0 .. MaxResults, by_number : 0 .. MaxResults,
   opens : BOOLEAN]

\* The end of search_and_open_case_page once a link is identified
\* (unicourt_handler.py:406-430): the click opens the case page or the
\* exception is caught and None returned.
OpenCaseLink(p, searches) ==
  [page |-> p.opens, searches |-> searches]

\* unicourt_handler.py:358-430.  searches: the searches performed, in
\* order.  No results for the name, also after the delay (lines 372-379):
\* None is returned.  One result: its link is opened.  Several: one more
\* search by name and number (line 388), and the first row it lists is
\* opened (lines 395-403).
search_and_open_case_page(p) ==
  LET num_results == IF p.by_name = 0 THEN p.by_name_later ELSE p.by_name IN
  IF ~p.name_search_ok THEN [page |-> FALSE, searches |-> <<"name">>]
  ELSE IF num_results = 0 THEN [page |-> FALSE, searches |-> <<"name">>]
  ELSE IF num_results = 1 THEN OpenCaseLink(p, <<"name">>)
  ELSE IF ~p.both_search_ok
    THEN [page |-> FALSE, searches |-> <<"name", "name+number">>]
  ELSE IF p.by_both = 0
    THEN [page |-> FALSE, searches |-> <<"name", "name+number">>]
  ELSE OpenCaseLink(p, <<"name", "name+number">>)

\* case_processor.py:215-231, after search_and_open_case_page came back.
\* o: what it did.
SearchOutcome(S, w, o) ==
  LET me == S.wk[w] IN
  CASE o = "page" ->
         [S EXCEPT !.wk[w] = [@ EXCEPT !.pc = "dismissal",
                                       !.case_page = TRUE]]
    [] o = "none" ->
         ToCleanup([S EXCEPT !.cases =
                      update_case_status(@, me.case_id,
                                         CASE_NOT_FOUND_ON_UNICOURT)],
                   w, me.final_case_status)
    [] o = "raise" ->
         ToCleanup(S, w, WORKER_ERROR)

\* case_processor.py:215-231.  o: what search_and_open_case_page did.
ProcSearch(w, o) ==
  /\ wk[w].pc = "search"
  /\ Commit(SearchOutcome(Now, w, o))

\* case_processor.py:215-231 with the search computed from what the portal
\* answers (p).
ProcSearchPortal(w, p) ==
  /\ wk[w].pc = "search"
  /\ LET r == search_and_open_case_page(p) IN
     Commit(SearchOutcome(
              [Now EXCEPT !.wk[w].last_search = <<[p |-> p, r |-> r]>>],
              w, IF r.page THEN "page" ELSE "none"))

\* ProcDismissal without the assignment of line 236: the stop exception is
\* raised with final_case_status still at its default.
ProcDismissal_StatusNotSet(w, found) ==
  /\ wk[w].pc = "dismissal"
  /\ IF found
       THEN Commit(ToCleanup(Now, w, wk[w].final_case_status))
       ELSE Commit([Now EXCEPT !.wk[w] = [@ EXCEPT !.pc = "parties"]])

\* case_processor.py:234-237.  found: check_for_voluntary_dismissal's answer
\* (it catches its own errors).
ProcDismissal(w, found) ==
  /\ wk[w].pc = "dismissal"
  /\ IF found
       THEN Commit(ToCleanup(Now, w, VOLUNTARY_DISMISSAL_FOUND_SKIPPED))
       ELSE Commit([Now EXCEPT !.wk[w] = [@ EXCEPT !.pc = "parties"]])

update_associated_parties(db, case_id, names) ==
  {IF c.id = case_id THEN [c EXCEPT !.associated_parties = names] ELSE c :
     c \in db}

\* case_processor.py:240-254.  names: the party names read from the tab.
ProcParties(w, names) ==
  /\ wk[w].pc = "parties"
  /\ Commit([Now EXCEPT
        !.cases = IF names = {} THEN @
                  ELSE update_associated_parties(@, wk[w].case_id, names),
        !.wk[w] = [@ EXCEPT !.pc = "resolve", !.targets = names]])

\* remove_temp_dir with the os.path.exists test of line 413 left out:
\* shutil.rmtree is called on a path that is not there, raises
\* FileNotFoundError, and the except clause logs it as an error.
remove_temp_dir_NoExistsTest(dirs, key, rm_ok) ==
  IF key \in dirs /\ rm_ok
    THEN [dirs |-> dirs \ {key}, error |-> FALSE]
    ELSE [dirs |-> dirs, error |-> TRUE]

\* case_processor.py:412-418 (and 163-167 at the start of a run): the
\* directory is removed when it exists; an exception of shutil.rmtree
\* (rm_ok = FALSE) is caught and logged as an error, and the directory
\* stays.  Nothing is raised to the caller.
remove_temp_dir(dirs, key, rm_ok) ==
  IF key \in dirs
    THEN IF rm_ok THEN [dirs |-> dirs \ {key}, error |-> FALSE]
                  ELSE [dirs |-> dirs, error |-> TRUE]
    ELSE [dirs |-> dirs, error |-> FALSE]

\* case_processor.py:403-422 after the awaited page clean-up: remove the
\* temporary directory, write final_case_status, return to the worker
\* (case_worker.py:112 break, 134-139).  db_fault: the write at line 421
\* raises, which takes the worker to its handler at 115.
ProcCleanup(w, db_fault, db_fault2) ==
  /\ wk[w].pc = "cleanup"
  /\ LET me == wk[w]
         S1 == [Now EXCEPT !.tempDirs =
                             remove_temp_dir(@, me.case_number, TRUE).dirs,
                           !.wk[w] = [@ EXCEPT !.case_page = FALSE]]
     IN IF db_fault
          THEN Commit(WorkerExcept(S1, w, "other", db_fault2))
          ELSE Commit(Finish([S1 EXCEPT !.cases =
                 update_case_status(@, me.case_id, me.final_case_status)], w))

\* The write at case_processor.py:421 raises an exception whose text the
\* worker's handler classifies (case_worker.py:116): kind is "session" when
\* the text holds "Connection closed" or "Failed to ensure Unicourt
\* session", "other" otherwise.
ProcCleanupRaise(w, kind, db_fault2) ==
  /\ wk[w].pc = "cleanup"
  /\ LET me == wk[w]
         S1 == [Now EXCEPT !.tempDirs =
                             remove_temp_dir(@, me.case_number, TRUE).dirs,
                           !.wk[w] = [@ EXCEPT !.case_page = FALSE]]
     IN Commit(WorkerExcept(S1, w, kind, db_fault2))

\* ------------------------------------------------------- document resolver
PAID_DOC_ORDER_CHUNK_SIZE == 10
DOC_KEYWORDS_FJ == {"FINAL", "JUDGMENT"}
DOC_KEYWORDS_COMPLAINT == {"COMPLAINT"}

\* The keywords a title contains ("kw.upper() in title.upper()").
KeywordsIn(title) ==
  CASE title = "FINAL JUDGMENT" -> {"FINAL", "JUDGMENT"}
    [] title = "DEFAULT JUDGMENT" -> {"JUDGMENT"}
    [] title = "COMPLAINT" -> {"COMPLAINT"}
    [] OTHER -> {}

\* unicourt_handler.py:561-568: final judgment if ANY of its keywords occurs.
categorize_doc_title(title) ==
  IF \E kw \in DOC_KEYWORDS_FJ : kw \in KeywordsIn(title) THEN FINAL_JUDGMENT
  ELSE IF \E kw \in DOC_KEYWORDS_COMPLAINT : kw \in KeywordsIn(title)
    THEN COMPLAINT
  ELSE UNKNOWN

\* case_processor.py:460-469: final judgment if ALL of its keywords occur.
doc_type_from_summary(summary_item) ==
  IF \A kw \in DOC_KEYWORDS_FJ : kw \in KeywordsIn(summary_item.document_name)
    THEN FINAL_JUDGMENT
  ELSE IF \E kw \in DOC_KEYWORDS_COMPLAINT :
            kw \in KeywordsIn(summary_item.document_name)
    THEN COMPLAINT
  ELSE UNKNOWN

SummaryEntry(name, key, status) ==
  [document_name |-> name, unicourt_doc_key |-> key, status |-> status]

\* unicourt_handler.py:749-794, one row of the Paid section.  A row is
\* [title, free, chk, err]: err "title" when reading the title raises,
\* "late" when reading the cost raises; chk: its checkbox can be ticked.
RECURSIVE ScanPaid(_, _, _)
ScanPaid(rows, i, acc) ==
  IF i > Len(rows) THEN acc
  ELSE LET r == rows[i] IN
    ScanPaid(rows, i + 1,
      IF r.err = "title"
        THEN [acc EXCEPT !.summ = Append(@,
               SummaryEntry("Unknown_Paid_Doc_Title", NULL,
                            GENERIC_PROCESSING_ERROR))]
      ELSE IF categorize_doc_title(r.title) = UNKNOWN THEN acc
      ELSE IF r.err = "late"
        THEN [acc EXCEPT !.summ = Append(@,
               SummaryEntry(r.title, NULL, GENERIC_PROCESSING_ERROR))]
      ELSE IF ~r.free
        THEN [acc EXCEPT !.summ = Append(@,
               SummaryEntry(r.title, NULL, SKIPPED_REQUIRES_PAYMENT))]
      ELSE [acc EXCEPT !.to_order = Append(@, r)])

ChunkOf(i) == ((i - 1) \div PAID_DOC_ORDER_CHUNK_SIZE) + 1
NumChunks(n) == (n + PAID_DOC_ORDER_CHUNK_SIZE - 1) \div PAID_DOC_ORDER_CHUNK_SIZE

\* OrderChunks that orders full chunks only.
OrderChunks_DropsRemainder(docs) ==
  [k \in 1 .. (Len(docs) \div PAID_DOC_ORDER_CHUNK_SIZE) |->
     SubSeq(docs, (k - 1) * PAID_DOC_ORDER_CHUNK_SIZE + 1,
            k * PAID_DOC_ORDER_CHUNK_SIZE)]

\* unicourt_handler.py:798-800: "for i in range(0, len(docs), size):
\* chunk_to_order = docs[i:i + size]", the chunks in the order in which they
\* are attempted.
OrderChunks(docs) ==
  [k \in 1 .. NumChunks(Len(docs)) |->
     SubSeq(docs, (k - 1) * PAID_DOC_ORDER_CHUNK_SIZE + 1,
            IF k * PAID_DOC_ORDER_CHUNK_SIZE < Len(docs)
              THEN k * PAID_DOC_ORDER_CHUNK_SIZE ELSE Len(docs))]

\* unicourt_handler.py:797-904: the status recorded for the i-th document
\* to order.  order[c] is what happened to chunk c: "ok", "failed" (button
\* unavailable or an indicator wait failed); banner: the global failure
\* message is shown.
OrderStatus(docs, i, order, banner) ==
  LET st0 == IF docs[i].chk THEN IDENTIFIED_FOR_PROCESSING ELSE ORDERING_FAILED
      st1 == IF order[ChunkOf(i)] = "ok"
               THEN IF st0 = IDENTIFIED_FOR_PROCESSING
                      THEN ORDERING_COMPLETED ELSE st0
               ELSE ORDERING_FAILED
      st2 == IF banner /\ st1 = IDENTIFIED_FOR_PROCESSING
               THEN ORDERING_FAILED ELSE st1
  IN IF st2 = IDENTIFIED_FOR_PROCESSING THEN ORDERING_FAILED ELSE st2

OrderSummaries(docs, order, banner) ==
  [i \in 1 .. Len(docs) |->
     SummaryEntry(docs[i].title, NULL, OrderStatus(docs, i, order, banner))]

\* unicourt_handler.py:955-959: the entry a CrowdSourced row updates: by key
\* when the row has one, by name among keyless entries when it has none.
ExistingEntry(summ, title, key) ==
  LET byKey == {j \in 1 .. Len(summ) :
                  summ[j].unicourt_doc_key = key /\ key # NULL}
      byName == {j \in 1 .. Len(summ) :
                   summ[j].document_name = title
                   /\ summ[j].unicourt_doc_key = NULL}
      Min(S) == CHOOSE x \in S : \A y \in S : x <= y
  IN IF byKey # {} THEN Min(byKey)
     ELSE IF key = NULL /\ byName # {} THEN Min(byName)
     ELSE 0

\* unicourt_handler.py:918-984, one row of the CrowdSourced section.  A row
\* is [title, key, dl, err]: dl, the download produced a file.
RECURSIVE ScanCrowd(_, _, _)
ScanCrowd(rows, i, acc) ==
  IF i > Len(rows) THEN acc
  ELSE LET r == rows[i]
           st == IF r.dl THEN DOWNLOAD_SUCCESS ELSE DOWNLOAD_FAILED
           j == ExistingEntry(acc.summ, r.title, r.key)
           b == IF r.dl
                  THEN Append(acc.bundle,
                         [original_title |-> r.title,
                          unicourt_doc_key |-> r.key,
                          document_type |-> categorize_doc_title(r.title)])
                  ELSE acc.bundle
       IN ScanCrowd(rows, i + 1,
            IF r.err = "title"
              THEN [acc EXCEPT !.summ = Append(@,
                     SummaryEntry("Unknown_CrowdSourced_Doc_Title", NULL,
                                  GENERIC_PROCESSING_ERROR))]
            ELSE IF categorize_doc_title(r.title) = UNKNOWN THEN acc
            ELSE IF r.err = "late"
              THEN [acc EXCEPT !.summ = Append(@,
                     SummaryEntry(r.title, r.key, GENERIC_PROCESSING_ERROR))]
            ELSE IF j # 0
              THEN [summ |-> [acc.summ EXCEPT
                               ![j].status = st,
                               ![j].unicourt_doc_key =
                                  IF r.key # NULL /\ @ = NULL THEN r.key ELSE @],
                    bundle |-> b]
            ELSE [summ |-> Append(acc.summ, SummaryEntry(r.title, r.key, st)),
                  bundle |-> b])

\* Safeguard that leaves every entry as it is.
Safeguard_Off(summ) == summ

\* unicourt_handler.py:991-1004.
Safeguard(summ) ==
  [j \in 1 .. Len(summ) |->
     IF summ[j].status \in {IDENTIFIED_FOR_PROCESSING, ORDERING_COMPLETED}
       THEN [summ[j] EXCEPT !.status = ORDERING_FAILED]
       ELSE summ[j]]

\* unicourt_handler.py:684-1011.  page is what the Documents tab shows:
\* [tab_ok, paid, order, banner, crowd].  Returns the bundle for extraction
\* and the document summaries; raised: the call ends with an exception
\* instead (order[k] = "raise": the click on the order button, the wait for
\* the confirmation dialog or the click on "Proceed" of chunk k raised,
\* lines 818-823, which no try encloses).
identify_and_process_documents_on_case_page(page) ==
  IF ~page.tab_ok
    THEN [bundle |-> <<>>, chunks |-> <<>>, raised |-> FALSE,
          summ |-> <<SummaryEntry("Document Tab Navigation", NULL,
                                  GENERIC_PROCESSING_ERROR)>>]
  ELSE LET a == ScanPaid(page.paid, 1, [summ |-> <<>>, to_order |-> <<>>])
           s1 == a.summ \o OrderSummaries(a.to_order, page.order, page.banner)
           c == ScanCrowd(page.crowd, 1, [summ |-> s1, bundle |-> <<>>])
           all == OrderChunks(a.to_order)
           raising == {k \in 1 .. Len(all) : page.order[k] = "raise"}
           \* the ordering attempts made: all of them, or those up to the
           \* first one that raised
           made == IF raising = {} THEN all
                   ELSE SubSeq(all, 1, CHOOSE k \in raising :
                                         \A m \in raising : k <= m)
       IN [bundle |-> c.bundle, chunks |-> made,
           raised |-> raising # {},
           summ |-> Safeguard(c.summ)]


\* --------------------------------------------------- extraction and status
EXTRACT_ASSOCIATED_PARTY_ADDRESSES == TRUE

update_case_summary(db, id, summ) ==
  {IF c.id = id THEN [c EXCEPT !.processed_documents_summary = summ] ELSE c :
     c \in db}

\* update_doc_summary_status that leaves the stored summary as it was (the
\* list is changed in memory and never written).
update_doc_summary_status_NotStored(summ, doc_name, doc_key, new_status) ==
  summ

\* case_processor.py:424-458.
update_doc_summary_status(summ, doc_name, doc_key, new_status) ==
  LET hit == {j \in 1 .. Len(summ) :
                \/ (summ[j].unicourt_doc_key = doc_key /\ doc_key # NULL)
                \/ (summ[j].document_name = doc_name /\ doc_key = NULL
                    /\ summ[j].unicourt_doc_key = NULL)}
  IN IF hit # {}
       THEN [summ EXCEPT ![CHOOSE j \in hit : \A k \in hit : j <= k].status =
                           new_status]
       ELSE Append(summ, SummaryEntry(doc_name, doc_key, new_status))

\* AllCaseInfoFound without the test on the associated parties.
AllCaseInfoFound_IgnoresParties(me, is_business) ==
  /\ me.found_name
  /\ me.found_addr
  /\ (~is_business \/ me.found_reg)

\* case_processor.py:293-300 and 373-379.
AllCaseInfoFound(me, is_business) ==
  /\ me.found_name
  /\ me.found_addr
  /\ (~is_business \/ me.found_reg)
  /\ \/ ~EXTRACT_ASSOCIATED_PARTY_ADDRESSES
     \/ me.targets = {}
     \/ me.targets \subseteq me.found_party

\* case_processor.py:348-385.
FinalStatus(summ, bundle, me, is_business) ==
  LET has_doc_processing_errors ==
        IF summ # <<>>
          THEN \E j \in 1 .. Len(summ) :
                 /\ doc_type_from_summary(summ[j]) \in {FINAL_JUDGMENT, COMPLAINT}
                 /\ summ[j].status \notin
                      {LLM_EXTRACTION_SUCCESS, LLM_EXTRACTION_FAILED,
                       SKIPPED_PROCESSING_NOT_NEEDED, SKIPPED_REQUIRES_PAYMENT}
          ELSE bundle # <<>>
  IN IF has_doc_processing_errors THEN COMPLETED_WITH_ERRORS
     ELSE IF AllCaseInfoFound(me, is_business) THEN COMPLETED_SUCCESSFULLY
     ELSE COMPLETED_MISSING_DATA

\* RunLoop without the test of lines 293-306: every downloaded document is
\* handed to the extraction.
RunLoop_NeverSkips(S, w, i) ==
  LET me == S.wk[w]
      obj == get_case_by_id(S.cases, me.db_obj_id)
  IN IF i > Len(me.bundle)
       THEN ToCleanup(S, w, FinalStatus(obj.processed_documents_summary,
                                        me.bundle, me, obj.is_business))
       ELSE [S EXCEPT !.wk[w] = [@ EXCEPT !.pc = "llm", !.idx = i]]

\* case_processor.py:288-306 and 339-387: the document loop from document i
\* up to the next awaited extraction call, or to the end of the try block.
RECURSIVE RunLoop(_, _, _)
RunLoop(S, w, i) ==
  LET me == S.wk[w]
      obj == get_case_by_id(S.cases, me.db_obj_id)
      summ == obj.processed_documents_summary
  IN IF i > Len(me.bundle)
       THEN ToCleanup(S, w, FinalStatus(summ, me.bundle, me, obj.is_business))
     ELSE IF AllCaseInfoFound(me, obj.is_business)
       THEN RunLoop([S EXCEPT !.cases = update_case_summary(@, me.db_obj_id,
                        update_doc_summary_status(summ,
                          me.bundle[i].original_title,
                          me.bundle[i].unicourt_doc_key,
                          SKIPPED_PROCESSING_NOT_NEEDED))],
                    w, i + 1)
     ELSE [S EXCEPT !.wk[w] = [@ EXCEPT !.pc = "llm", !.idx = i]]

\* case_processor.py:259-280.  page: what the Documents tab shows; raised:
\* the resolver lets an exception out (the order click at
\* unicourt_handler.py:818-823 is outside any try).
ProcResolve(w, page, raised) ==
  /\ wk[w].pc = "resolve"
  /\ \E r \in {identify_and_process_documents_on_case_page(page)} :
     LET me == wk[w]
         S1 == [Now EXCEPT !.cases = update_case_summary(@, me.db_obj_id, r.summ),
                           !.wk[w] = [@ EXCEPT !.bundle = r.bundle,
                                               !.chunks = r.chunks]]
         identified_relevant_docs ==
           \E j \in 1 .. Len(r.summ) :
              doc_type_from_summary(r.summ[j]) \in {FINAL_JUDGMENT, COMPLAINT}
     IN IF raised THEN Commit(ToCleanup(Now, w, WORKER_ERROR))
        ELSE IF r.raised
          THEN Commit(ToCleanup([Now EXCEPT !.wk[w].chunks = r.chunks],
                                w, WORKER_ERROR))
        ELSE IF r.bundle = <<>>
          THEN Commit(ToCleanup(S1, w,
                 IF ~identified_relevant_docs
                   THEN NO_FJ_NO_COMPLAINT_PDFS_FOUND
                   ELSE COMPLETED_WITH_ERRORS))
        ELSE Commit(RunLoop(S1, w, 1))

\* MergeLLM without the "and not case_db_obj...." half of the tests at
\* lines 85, 91 and 97: a later document replaces a resolved fact.
MergeLLM_LastWriterWins(c, out, title, found_party) ==
  [c EXCEPT
     !.original_creditor_name_from_doc =
        IF out.name # NULL THEN out.name ELSE @,
     !.original_creditor_name_source_doc_title =
        IF out.name # NULL THEN title ELSE @,
     !.creditor_address_from_doc =
        IF out.addr # NULL THEN out.addr ELSE @,
     !.creditor_address_source_doc_title =
        IF out.addr # NULL THEN title ELSE @,
     !.creditor_registration_state_from_doc =
        IF c.is_business /\ out.reg # NULL THEN out.reg ELSE @,
     !.creditor_registration_state_source_doc_title =
        IF c.is_business /\ out.reg # NULL THEN title ELSE @]

\* MergePartyList without the test of line 114: a pair is added for a name
\* that already has an address.
MergePartyList_NoFoundTest(data, found, ps, i, title) ==
  LET New(k) == /\ ps[k].name # NULL
                /\ ps[k].address # NULL
                /\ \A m \in 1 .. Len(data) :
                     ~(data[m].name = ps[k].name
                       /\ data[m].address = ps[k].address)
      add == SelectSeq([k \in 1 .. Len(ps) |->
                          [name |-> ps[k].name, address |-> ps[k].address,
                           source_doc_title |-> title, new |-> New(k)]],
                       LAMBDA e : e.new)
  IN [data |-> data \o [k \in 1 .. Len(add) |->
                          [name |-> add[k].name, address |-> add[k].address,
                           source_doc_title |-> add[k].source_doc_title]],
      found |-> found \cup {add[k].name : k \in 1 .. Len(add)}]

\* case_processor.py:103-124: the (name, address) pairs of one extraction,
\* from the i-th on, are merged into associated_parties_data.  A pair is
\* appended when both parts are non-empty, the same pair is not yet in the
\* list and no address was found for the name so far.  Returns the list
\* and the names with a found address.
RECURSIVE MergePartyList(_, _, _, _, _)
MergePartyList(data, found, ps, i, title) ==
  IF i > Len(ps) THEN [data |-> data, found |-> found]
  ELSE LET pi == ps[i]
           dup == \E k \in 1 .. Len(data) :
                    data[k].name = pi.name /\ data[k].address = pi.address
       IN IF pi.name # NULL /\ pi.address # NULL /\ ~dup
             /\ pi.name \notin found
            THEN MergePartyList(
                   Append(data, [name |-> pi.name, address |-> pi.address,
                                 source_doc_title |-> title]),
                   found \cup {pi.name}, ps, i + 1, title)
            ELSE MergePartyList(data, found, ps, i + 1, title)

\* case_processor.py:83-132: merge what the extraction returned into the
\* record; a field already filled is kept.
MergeLLM(c, out, title, found_party) ==
  [c EXCEPT
       !.original_creditor_name_from_doc =
          IF out.name # NULL /\ @ = NULL THEN out.name ELSE @,
       !.original_creditor_name_source_doc_title =
          IF out.name # NULL /\ c.original_creditor_name_from_doc = NULL
            THEN title ELSE @,
       !.creditor_address_from_doc =
          IF out.addr # NULL /\ @ = NULL THEN out.addr ELSE @,
       !.creditor_address_source_doc_title =
          IF out.addr # NULL /\ c.creditor_address_from_doc = NULL
            THEN title ELSE @,
       !.creditor_registration_state_from_doc =
          IF c.is_business /\ out.reg # NULL /\ @ = NULL THEN out.reg ELSE @,
       !.creditor_registration_state_source_doc_title =
          IF c.is_business /\ out.reg # NULL
             /\ c.creditor_registration_state_from_doc = NULL
            THEN title ELSE @,
       !.associated_parties_data =
          IF EXTRACT_ASSOCIATED_PARTY_ADDRESSES
            THEN MergePartyList(@, found_party, out.parties, 1, title).data
            ELSE @]

\* case_processor.py:324-334.
LLMDocStatus(kind) ==
  CASE kind = "conv_failed" -> LLM_PREPARATION_FAILED
    [] kind = "error" -> LLM_PROCESSING_ERROR
    [] kind = "nothing" -> LLM_EXTRACTION_FAILED
    [] OTHER -> LLM_EXTRACTION_SUCCESS

\* case_processor.py:309-336: the awaited extraction of document idx comes
\* back with out = [kind, name, addr, reg, parties]; kind "raise": the call
\* raised.
ProcLLM(w, out) ==
  /\ wk[w].pc = "llm"
  /\ LET me == wk[w]
         doc == me.bundle[me.idx]
         c == get_case_by_id(cases, me.db_obj_id)
         merged == IF out.kind \in {"nothing", "data"}
                     THEN MergeLLM(c, out, doc.original_title, me.found_party)
                     ELSE c
         c2 == [merged EXCEPT !.processed_documents_summary =
                  update_doc_summary_status(@, doc.original_title,
                                            doc.unicourt_doc_key,
                                            LLMDocStatus(out.kind))]
         hasData == out.kind \in {"nothing", "data"}
         S1 == [Now EXCEPT
                  !.cases = (@ \ {c}) \cup {c2},
                  !.wk[w] = [@ EXCEPT
                     !.found_name = @ \/ (hasData /\ out.name # NULL
                                          /\ c.original_creditor_name_from_doc = NULL),
                     !.found_addr = @ \/ (hasData /\ out.addr # NULL
                                          /\ c.creditor_address_from_doc = NULL),
                     !.found_reg = @ \/ (hasData /\ c.is_business /\ out.reg # NULL
                                         /\ c.creditor_registration_state_from_doc = NULL),
                     !.found_party = IF hasData /\ EXTRACT_ASSOCIATED_PARTY_ADDRESSES
                                       THEN MergePartyList(
                                              c.associated_parties_data, @,
                                              out.parties, 1,
                                              doc.original_title).found
                                       ELSE @]]
     IN IF out.kind = "raise" THEN Commit(ToCleanup(Now, w, WORKER_ERROR))
        ELSE Commit(RunLoop(S1, w, me.idx + 1))


\* ----------------------------------------------------- lifespan shutdown
\* A worker whose task is cancelled (lifespan.py:92-93): CancelledError is
\* raised at the await the worker is suspended in.  It is no Exception, so
\* inside the try block of process_single_case only the finally block
\* (case_processor.py:403-422) handles it, which starts with the awaited
\* page clean-up; raised inside that clean-up it leaves the finally block
\* with the directory and the status as they are.  Everywhere else it takes
\* the worker to "except asyncio.CancelledError: break" (case_worker.py:
\* 147-149) past the release at lines 134-139.  A finished task is not
\* cancelled.
CancelWorker(me) ==
  IF me.pc = "stopped" THEN me
  ELSE IF me.pc \in {"session", "search", "dismissal", "parties", "resolve",
                     "llm"}
    THEN [me EXCEPT !.pc = "cleanup", !.cancelled = TRUE]
  ELSE [me EXCEPT !.pc = "stopped", !.cancelled = TRUE]

\* lifespan.py:86-98: after the yield the flag is set and every worker task
\* that is not done is cancelled at once; then the workers are awaited for
\* at most 2 * GENERAL_TIMEOUT_SECONDS.  A cancelled worker that held or
\* waited for active_cases_lock gives it up.
lifespan_shutdown ==
  /\ lifespan = "running"
  /\ shutting_down' = TRUE
  /\ lifespan' = "waiting"
  /\ wk' = [w \in Workers |-> CancelWorker(wk[w])]
  /\ lockHolder' = 0
  /\ lockQ' = SelectSeq(lockQ, LAMBDA t : t = 0)
  /\ resp' = NoResponse
  /\ UNCHANGED <<queue, active, count, cases, tempDirs, reqs>>

\* case_processor.py:403-422 in a cancelled worker: the finally block runs
\* to its end (directory removed, final_case_status written), then the
\* CancelledError goes on to case_worker.py:147-149 and the task ends; the
\* key stays in the active set and the task stays counted.
ProcCleanupCancelled(w) ==
  /\ lifespan = "waiting"
  /\ wk[w].pc = "cleanup"
  /\ wk[w].cancelled
  /\ LET me == wk[w]
     IN Commit([Now EXCEPT
          !.tempDirs = remove_temp_dir(@, me.case_number, TRUE).dirs,
          !.cases = update_case_status(@, me.case_id, me.final_case_status),
          !.wk[w] = [@ EXCEPT !.pc = "stopped", !.case_page = FALSE]])

\* lifespan.py:96-104: every worker task has ended within the timeout;
\* Playwright is stopped.
lifespan_workers_done ==
  /\ lifespan = "waiting"
  /\ \A w \in Workers : wk[w].pc = "stopped"
  /\ lifespan' = "down"
  /\ resp' = NoResponse
  /\ UNCHANGED <<queue, active, count, lockHolder, lockQ, shutting_down,
                 cases, tempDirs, reqs, wk>>

\* lifespan.py:95-104: the timeout of asyncio.wait_for elapses with a worker
\* task still running; wait_for cancels the gather, which cancels the
\* remaining tasks again, and Playwright is stopped.
lifespan_timeout ==
  /\ lifespan = "waiting"
  /\ \E w \in Workers : wk[w].pc # "stopped"
  /\ lifespan' = "down"
  /\ wk' = [w \in Workers |-> [wk[w] EXCEPT !.pc = "stopped"]]
  /\ resp' = NoResponse
  /\ UNCHANGED <<queue, active, count, lockHolder, lockQ, shutting_down,
                 cases, tempDirs, reqs>>

\* ------------------------------------------------------------ restart
\* service_control.py:80-107: honoured only with an empty queue and no
\* counted task (202); otherwise 409 and nothing changes.
request_server_restart ==
  /\ ~shutting_down
  /\ IF Len(queue) = 0 /\ count = 0
       THEN shutting_down' = TRUE /\ resp' = [NoResponse EXCEPT !.http = 202]
       ELSE shutting_down' = shutting_down
            /\ resp' = [NoResponse EXCEPT !.http = 409]
  /\ UNCHANGED <<queue, active, count, lockHolder, lockQ, cases, tempDirs,
                 reqs, wk, lifespan>>

\* -------------------------------------------------- what the portal shows
PartyNames == {"p1"}
\* llm_data.associated_parties: a list of {"name", "address"}.
Party(name, address) == [name |-> name, address |-> address]
PaidRow(title, free) == [title |-> title, free |-> free, chk |-> TRUE, err |-> "none"]
CrowdRow(title, key, dl) == [title |-> title, key |-> key, dl |-> dl, err |-> "none"]
Page(paid, crowd) ==
  [tab_ok |-> TRUE, paid |-> paid, order |-> [c \in 1 .. 1 |-> "ok"],
   banner |-> FALSE, crowd |-> crowd]
LLMOut(kind, name, addr, reg, parties) ==
  [kind |-> kind, name |-> name, addr |-> addr, reg |-> reg, parties |-> parties]

\* The requests, pages and extraction results the worker-pool specifications
\* draw from: two keys, and a portal on which every step succeeds.
PoolPayloads == PayloadsOf(CaseSubmitDetail({"k1", " k1 ", "k2"}, {TRUE}))
PoolPages == {Page(<<>>, <<CrowdRow("FINAL JUDGMENT", "d1", TRUE)>>)}
PoolOuts == {LLMOut("data", "n1", "a1", "r1", <<>>)}

\* The same for one key and a failing database.
FaultPayloads == PayloadsOf(CaseSubmitDetail({"k1"}, {TRUE}))

\* The single-case specification: one key, every outcome of every portal
\* and extraction call.
MaxPaidRows == 1
MaxCrowdRows == 1
Titles == {"FINAL JUDGMENT", "DEFAULT JUDGMENT", "COMPLAINT", "SUMMONS"}
DocKeys == {"d1"}
\* Rows that differ in something the resolver reads: a row whose title
\* cannot be read, a row that fails after its title, a row read in full.
PaidRows ==
  {[title |-> "SUMMONS", free |-> FALSE, chk |-> FALSE, err |-> "title"]}
  \cup {[title |-> t, free |-> FALSE, chk |-> FALSE, err |-> "late"] : t \in Titles}
  \cup {[title |-> t, free |-> FALSE, chk |-> FALSE, err |-> "none"] : t \in Titles}
  \cup {[title |-> t, free |-> TRUE, chk |-> c, err |-> "none"] :
          t \in Titles, c \in BOOLEAN}
CrowdRows ==
  {[title |-> "SUMMONS", key |-> NULL, dl |-> FALSE, err |-> "title"]}
  \cup {[title |-> t, key |-> k, dl |-> FALSE, err |-> "late"] :
          t \in Titles, k \in DocKeys \cup {NULL}}
  \cup {[title |-> t, key |-> k, dl |-> d, err |-> "none"] :
          t \in Titles, k \in DocKeys \cup {NULL}, d \in BOOLEAN}
SeqsUpTo(S, n) == UNION {[1 .. k -> S] : k \in 0 .. n}
TabFailedPage == [Page(<<>>, <<>>) EXCEPT !.tab_ok = FALSE]
CasePages ==
  {TabFailedPage}
  \cup [tab_ok : {TRUE}, paid : SeqsUpTo(PaidRows, MaxPaidRows),
        order : [1 .. NumChunks(MaxPaidRows) -> {"ok", "failed"}],
        banner : BOOLEAN, crowd : SeqsUpTo(CrowdRows, MaxCrowdRows)]
CaseOuts ==
  {LLMOut("data", "n1", "a1", "r1", ps) :
     ps \in {<<>>, <<Party("p1", "pa1")>>}}
  \cup {LLMOut("data", "n1", NULL, NULL, <<>>)}
  \cup {LLMOut(k, NULL, NULL, NULL, <<>>) :
          k \in {"nothing", "error", "conv_failed", "raise"}}
CasePayloads == PayloadsOf(CaseSubmitDetail({"k1", " k1 ", "  "}, BOOLEAN))

\* ----------------------------------------------------------- specifications
Init ==
  /\ queue = <<>>
  /\ active = {}
  /\ count = 0
  /\ lockHolder = 0
  /\ lockQ = <<>>
  /\ shutting_down = FALSE
  /\ cases = {}
  /\ tempDirs = {}
  /\ reqs = <<>>
  /\ resp = NoResponse
  /\ lifespan = "running"
  /\ wk = [w \in Workers |-> IdleWorker]

\* The worker pool with a database whose writes succeed.
Next ==
  \/ \E payload \in PoolPayloads : Submit(payload, MaxPending)
  \/ SubmitResume
  \/ request_server_restart
  \/ \E w \in Workers :
       \/ Dequeue(w)
       \/ WorkerExit(w)
       \/ Pickup(w, FALSE, TRUE, FALSE)
       \/ AcquireAfterWait(w, FALSE, TRUE, FALSE)
       \/ RequeueWake(w)
       \/ ReleaseAfterWait(w)
       \/ ProcSession(w, "ok")
       \/ ProcSearch(w, "page")
       \/ ProcDismissal(w, FALSE)
       \/ ProcParties(w, {})
       \/ \E page \in PoolPages : ProcResolve(w, page, FALSE)
       \/ \E out \in PoolOuts : ProcLLM(w, out)
       \/ ProcCleanup(w, FALSE, FALSE)

Spec == Init /\ [][Next]_vars

\* The worker pool with a database whose writes may raise.
NextFault ==
  \/ \E payload \in FaultPayloads : Submit(payload, MaxPending)
  \/ SubmitResume
  \/ request_server_restart
  \/ \E w \in Workers :
       \/ Dequeue(w)
       \/ WorkerExit(w)
       \/ \E f1, f2 \in BOOLEAN : Pickup(w, f1, TRUE, f2)
       \/ \E f1, f2 \in BOOLEAN : AcquireAfterWait(w, f1, TRUE, f2)
       \/ RequeueWake(w)
       \/ ReleaseAfterWait(w)
       \/ OuterWake(w)
       \/ ProcSession(w, "ok")
       \/ ProcSearch(w, "page")
       \/ ProcDismissal(w, FALSE)
       \/ ProcParties(w, {})
       \/ \E page \in PoolPages : ProcResolve(w, page, FALSE)
       \/ \E out \in PoolOuts : ProcLLM(w, out)
       \/ \E f1, f2 \in BOOLEAN : ProcCleanup(w, f1, f2)

SpecFault == Init /\ [][NextFault]_vars

\* The worker pool under bursts of requests: up to MaxBurst requests wait for
\* the lock at once.
BurstPayloads ==
  {<<[case_number_for_db_id |-> k, is_business |-> TRUE,
      creditor_type |-> [kind |-> "enum", value |-> "Plaintiff"]]>> :
     k \in {"k1", "k2"}}

NextBurst ==
  \/ \E payload \in BurstPayloads : Submit(payload, MaxBurst)
  \/ SubmitResume
  \/ \E w \in Workers :
       \/ Dequeue(w)
       \/ Pickup(w, FALSE, TRUE, FALSE)
       \/ AcquireAfterWait(w, FALSE, TRUE, FALSE)
       \/ RequeueWake(w)
       \/ ReleaseAfterWait(w)
       \/ ProcSession(w, "ok")
       \/ ProcSearch(w, "page")
       \/ ProcDismissal(w, FALSE)
       \/ ProcParties(w, {})
       \/ \E page \in PoolPages : ProcResolve(w, page, FALSE)
       \/ \E out \in PoolOuts : ProcLLM(w, out)
       \/ ProcCleanup(w, FALSE, FALSE)

SpecBurst == Init /\ [][NextBurst]_vars

\* One case at a time through worker 1, against every portal outcome: a
\* request arrives when the queue is empty and the worker waits for work.
NextCase ==
  \/ /\ queue = <<>> /\ wk[1].pc = "idle"
     /\ \E payload \in CasePayloads : Submit(payload, MaxPending)
  \/ request_server_restart
  \/ Dequeue(1)
  \/ WorkerExit(1)
  \/ \E dash_ok \in BOOLEAN : Pickup(1, FALSE, dash_ok, FALSE)
  \/ \E o \in {"ok", "false", "raise"} : ProcSession(1, o)
  \/ \E o \in {"page", "none", "raise"} : ProcSearch(1, o)
  \/ \E found \in BOOLEAN : ProcDismissal(1, found)
  \/ \E names \in SUBSET PartyNames : ProcParties(1, names)
  \/ /\ wk[1].pc = "resolve"
     /\ \/ \E page \in CasePages : ProcResolve(1, page, FALSE)
        \/ ProcResolve(1, TabFailedPage, TRUE)
  \/ /\ wk[1].pc = "llm"
     /\ \E out \in CaseOuts : ProcLLM(1, out)
  \/ ProcCleanup(1, FALSE, FALSE)

SpecCase == Init /\ [][NextCase]_vars

\* The worker pool with a failing database, no restart request, and fair
\* scheduling: the event loop runs every task that is ready (the steps of
\* each worker, a request that was handed the lock), and every awaited
\* portal call, sleep and timeout comes back.
WorkerStep(w) ==
  \/ Dequeue(w)
  \/ Pickup(w, FALSE, TRUE, FALSE)
  \/ AcquireAfterWait(w, FALSE, TRUE, FALSE)
  \/ RequeueWake(w)
  \/ ReleaseAfterWait(w)
  \/ OuterWake(w)
  \/ ProcSession(w, "ok")
  \/ ProcSearch(w, "page")
  \/ ProcDismissal(w, FALSE)
  \/ ProcParties(w, {})
  \/ \E page \in PoolPages : ProcResolve(w, page, FALSE)
  \/ \E out \in PoolOuts : ProcLLM(w, out)
  \* a case ends well, or with both of its last writes failing (the end
  \* that reaches the outermost handler of the loop)
  \/ \E f \in BOOLEAN : ProcCleanup(w, f, f)

\* A request is taken only if the row id its record would get stays within
\* MaxId.  The table does not change while a request waits for the lock
\* (no other request completes before it), so a request that was taken is
\* never held back by the bound when it resumes.
RowIdWithinBound(payload) ==
  LET key == Strip(payload[1].case_number_for_db_id)
      others == {c.id : c \in {d \in cases : d.case_number # key}}
  IN Max(others \cup {0}) + 1 <= MaxId

NextLive ==
  \/ \E payload \in BurstPayloads :
       RowIdWithinBound(payload) /\ Submit(payload, MaxPending)
  \/ SubmitResume
  \/ \E w \in Workers : WorkerStep(w)

SpecLive ==
  /\ Init
  /\ [][NextLive]_vars
  /\ WF_vars(SubmitResume)
  /\ \A w \in Workers : WF_vars(WorkerStep(w))


\* One worker and one case number, with the worker's session recovery: the
\* session check of the processor may fail or raise, the final write may
\* raise with a text the worker takes for a session error or for any other
\* error, and the rebuild of the browser resources may succeed, fail or
\* raise.
NextRetry ==
  \/ /\ queue = <<>> /\ wk[1].pc = "idle"
     /\ \E payload \in FaultPayloads : Submit(payload, MaxPending)
  \/ Dequeue(1)
  \/ \E dash_ok \in BOOLEAN : Pickup(1, FALSE, dash_ok, FALSE)
  \/ OuterWake(1)
  \/ \E o \in {"ok", "false", "raise"} : ProcSession(1, o)
  \/ \E o \in {"page", "none", "raise"} : ProcSearch(1, o)
  \/ \E found \in BOOLEAN : ProcDismissal(1, found)
  \/ ProcParties(1, {})
  \/ \E page \in PoolPages : ProcResolve(1, page, FALSE)
  \/ \E out \in PoolOuts : ProcLLM(1, out)
  \/ \E f1, f2 \in BOOLEAN : ProcCleanup(1, f1, f2)
  \/ \E f2 \in BOOLEAN : ProcCleanupRaise(1, "session", f2)
  \/ \E h \in CloseInputs, o \in {"ok", "false", "raise"} :
       Reinit(1, h, o, FALSE, FALSE)
  \/ \E dash_ok \in BOOLEAN : RetryWake(1, FALSE, dash_ok, FALSE)

SpecRetry == Init /\ [][NextRetry]_vars

\* The leak specification: more keys than workers and a database whose
\* writes may raise; one worker takes the entries one after the other, and
\* the session check of the processor fails.
MaxLeakId == 3
LeakPayloads == PayloadsOf(CaseSubmitDetail({"k1", "k2", "k3"}, {TRUE}))

NextLeak ==
  \/ /\ queue = <<>> /\ wk[1].pc = "idle"
     /\ \E payload \in LeakPayloads : SubmitUpTo(payload, MaxPending, MaxLeakId)
  \/ Dequeue(1)
  \/ \E f1, f2 \in BOOLEAN : Pickup(1, f1, TRUE, f2)
  \/ OuterWake(1)
  \/ ProcSession(1, "false")
  \/ \E f1, f2 \in BOOLEAN : ProcCleanup(1, f1, f2)

SpecLeak == Init /\ [][NextLeak]_vars

\* The search specification: one case whose search is computed from what
\* the portal answers; a case page that opens shows a voluntary dismissal,
\* which ends the case.
NextSearch ==
  \/ /\ queue = <<>> /\ wk[1].pc = "idle"
     /\ \E payload \in PoolPayloads : Submit(payload, MaxPending)
  \/ Dequeue(1)
  \/ Pickup(1, FALSE, TRUE, FALSE)
  \/ ProcSession(1, "ok")
  \/ /\ wk[1].pc = "search"
     /\ \E p \in SearchInputs : ProcSearchPortal(1, p)
  \/ ProcDismissal(1, TRUE)
  \/ ProcCleanup(1, FALSE, FALSE)

SpecSearch == Init /\ [][NextSearch]_vars

\* One case with two downloaded documents that state different values for
\* the same facts: document i states ("n"i, "a"i, "r"i) and an address
\* "pa"i of the party "p1".  The first one may state any part of them; the
\* second one states all of them.
MergePayloads == PayloadsOf(CaseSubmitDetail({"k1"}, BOOLEAN))
MergePages ==
  {Page(<<>>, <<CrowdRow("FINAL JUDGMENT", "d1", TRUE),
                CrowdRow("COMPLAINT", "d2", TRUE)>>)}
\* The party lists of the first document: none, one address for "p1", two
\* different addresses for "p1", a name without an address.
FirstDocParties ==
  {<<>>, <<Party("p1", "pa1")>>,
   <<Party("p1", "pa1"), Party("p1", "pb1")>>, <<Party("p1", NULL)>>}
DocOuts(i) ==
  IF i = 1
    THEN {LLMOut("data", n, a, r, ps) :
            n \in {NULL, "n1"}, a \in {NULL, "a1"}, r \in {NULL, "r1"},
            ps \in FirstDocParties}
         \cup {LLMOut(k, NULL, NULL, NULL, <<>>) : k \in {"nothing", "error"}}
    ELSE {LLMOut("data", "n2", "a2", "r2", <<Party("p1", "pa2")>>),
          LLMOut("error", NULL, NULL, NULL, <<>>)}

NextMerge ==
  \/ /\ queue = <<>> /\ wk[1].pc = "idle"
     /\ \E payload \in MergePayloads : Submit(payload, MaxPending)
  \/ Dequeue(1)
  \/ Pickup(1, FALSE, TRUE, FALSE)
  \/ ProcSession(1, "ok")
  \/ ProcSearch(1, "page")
  \/ ProcDismissal(1, FALSE)
  \/ \E names \in SUBSET PartyNames : ProcParties(1, names)
  \/ \E page \in MergePages : ProcResolve(1, page, FALSE)
  \/ /\ wk[1].pc = "llm"
     /\ \E out \in DocOuts(wk[1].idx) : ProcLLM(1, out)
  \/ ProcCleanup(1, FALSE, FALSE)

SpecMerge == Init /\ [][NextMerge]_vars

\* One case whose Paid section lists up to MaxOrderDocs free documents,
\* numbered in the order of the page, after an optional paid-for row and a
\* row with an irrelevant title; every chunk may be ordered or fail (the
\* order button is not available, the indicators time out), and the first
\* document may be in the CrowdSourced section.
MaxOrderDocs == 23
NumberedRows(n, t) ==
  [i \in 1 .. n |->
     [title |-> t, free |-> TRUE, chk |-> TRUE, err |-> "none", row |-> i]]
LeadingRows ==
  {<<>>,
   <<[title |-> "COMPLAINT", free |-> FALSE, chk |-> FALSE, err |-> "none",
      row |-> 0],
     [title |-> "SUMMONS", free |-> TRUE, chk |-> TRUE, err |-> "none",
      row |-> 0]>>}
ChunkPages ==
  UNION {[tab_ok : {TRUE},
          paid : {lead \o NumberedRows(n, t) : lead \in LeadingRows},
          order : [1 .. NumChunks(n) -> {"ok", "failed"}],
          banner : {FALSE},
          crowd : {<<>>, <<CrowdRow(t, NULL, TRUE)>>}] :
           n \in 0 .. MaxOrderDocs, t \in {"FINAL JUDGMENT", "COMPLAINT"}}

\* The same pages with an ordering attempt that ends in an exception.
RaisePages ==
  UNION {[tab_ok : {TRUE},
          paid : {NumberedRows(n, "FINAL JUDGMENT")},
          order : {o \in [1 .. NumChunks(n) -> {"ok", "failed", "raise"}] :
                     \E k \in DOMAIN o : o[k] = "raise"},
          banner : {FALSE},
          crowd : {<<>>}] : n \in 1 .. MaxOrderDocs}

NextChunks ==
  \/ /\ queue = <<>> /\ wk[1].pc = "idle"
     /\ \E payload \in FaultPayloads : Submit(payload, MaxPending)
  \/ Dequeue(1)
  \/ Pickup(1, FALSE, TRUE, FALSE)
  \/ ProcSession(1, "ok")
  \/ ProcSearch(1, "page")
  \/ ProcDismissal(1, FALSE)
  \/ ProcParties(1, {})
  \/ /\ wk[1].pc = "resolve"
     /\ \E page \in ChunkPages \cup RaisePages : ProcResolve(1, page, FALSE)
  \/ \E out \in PoolOuts : ProcLLM(1, out)
  \/ ProcCleanup(1, FALSE, FALSE)

SpecChunks == Init /\ [][NextChunks]_vars


\* One worker at work, the other waiting for an entry, and the application
\* shut down at any moment.
NextShutdown ==
  \/ /\ lifespan = "running"
     /\ \E payload \in PoolPayloads : Submit(payload, MaxPending)
  \/ Dequeue(1)
  \/ Pickup(1, FALSE, TRUE, FALSE)
  \/ \E o \in {"ok", "false"} : ProcSession(1, o)
  \/ \E o \in {"page", "none"} : ProcSearch(1, o)
  \/ \E found \in BOOLEAN : ProcDismissal(1, found)
  \/ ProcParties(1, {})
  \/ \E page \in PoolPages : ProcResolve(1, page, FALSE)
  \/ \E out \in PoolOuts : ProcLLM(1, out)
  \/ ~wk[1].cancelled /\ ProcCleanup(1, FALSE, FALSE)
  \/ lifespan_shutdown
  \/ \E w \in Workers : ProcCleanupCancelled(w)
  \/ lifespan_workers_done
  \/ lifespan_timeout

SpecShutdown == Init /\ [][NextShutdown]_vars


\* ================================================================== claims
\* Positions at which a worker is inside process_single_case.
ProcPcs == {"session", "search", "dismissal", "parties", "resolve", "llm",
            "cleanup"}
Processing(w) == wk[w].pc \in ProcPcs

\* C1: at any time at most one worker is executing the case processor for
\* a given case key.
C1_OneAttemptPerKey ==
  \A w1, w2 \in Workers :
    (w1 # w2 /\ Processing(w1) /\ Processing(w2))
      => wk[w1].case_number # wk[w2].case_number

\* C1 witness: a second worker has taken an entry for a key that the first
\* worker is processing, and has been turned away (it re-queued the entry).
C1_Witness ==
  \E w1, w2 \in Workers :
    /\ w1 # w2
    /\ Processing(w1)
    /\ wk[w2].pc = "requeue_sleep"
    /\ wk[w2].case_number = wk[w1].case_number

\* A submit request that runs to its response in this step: it arrived with
\* the lock free, or it is the suspended request being resumed.
SubmitCompletes(payload) ==
  \/ (~shutting_down /\ LockFree /\ Submit(payload, MaxBurst))
  \/ (SubmitResume /\ Head(reqs).payload = payload)

KeyOf(payload) == Strip(payload[1].case_number_for_db_id)
QueueEntriesFor(q, key) == Cardinality({i \in 1 .. Len(q) : q[i].key = key})

\* C2: a submission of a key that is in the queue or in the active set when
\* the submission is handled adds no queue entry, touches no record or
\* temporary directory, and is reported as skipped.
C2_SkipIsNoOp ==
  [][\A payload \in BurstPayloads :
       (SubmitCompletes(payload)
        /\ KeyOf(payload) \in QueueCaseNumbers(queue) \cup active)
         => /\ queue' = queue
            /\ cases' = cases
            /\ tempDirs' = tempDirs
            /\ resp'.already_queued_or_processing = 1
            /\ resp'.submitted_cases = 0]_vars

\* C3: no key is in the queue and in the active set at the same time.
C3_QueueActiveDisjoint == QueueCaseNumbers(queue) \cap active = {}


StoredFor(db, key) == {c \in db : c.case_number = key}
FreshRecord(c) ==
  /\ c.status = QUEUED
  /\ c.original_creditor_name_from_doc = NULL
  /\ c.creditor_address_from_doc = NULL
  /\ c.creditor_registration_state_from_doc = NULL
  /\ c.associated_parties_data = <<>>
  /\ c.processed_documents_summary = <<>>

\* C4: a submission of a key that has a record and is neither queued nor
\* active leaves exactly one record for the key, a fresh one in status
\* Queued, no temporary directory, and exactly one queue entry for the key.
C4_ResubmitLeavesOneFreshRecord ==
  [][\A payload \in PoolPayloads :
       (SubmitCompletes(payload)
        /\ StoredFor(cases, KeyOf(payload)) # {}
        /\ KeyOf(payload) \notin QueueCaseNumbers(queue) \cup active)
         => /\ Cardinality(StoredFor(cases', KeyOf(payload))) = 1
            /\ \A c \in StoredFor(cases', KeyOf(payload)) : FreshRecord(c)
            /\ KeyOf(payload) \notin tempDirs'
            /\ QueueEntriesFor(queue', KeyOf(payload)) = 1]_vars

\* A worker holds a key in flight from taking its entry off the queue until
\* it has released the key or put the entry back.
InFlight(w) == wk[w].pc \in {"dequeued", "lock_wait", "release_wait"} \cup ProcPcs

\* C5: a submission handled while a worker holds the key in flight deletes
\* neither the key's record nor its temporary directory.
C5_NoDeleteInFlight ==
  [][\A payload \in PoolPayloads :
       (SubmitCompletes(payload)
        /\ \E w \in Workers : InFlight(w) /\ wk[w].entry_key = KeyOf(payload))
         => /\ StoredFor(cases, KeyOf(payload)) \subseteq cases'
            /\ resp'.deleted_and_resubmitted_cases = 0
            /\ resp'.http = 202
            /\ (KeyOf(payload) \in tempDirs => KeyOf(payload) \in tempDirs')]_vars

\* The worker has entered its key in the active set and counted the task.
Holding(w) == wk[w].pc \in ProcPcs \cup {"release_wait", "outer_sleep"}

\* C6: when a worker that entered a key in the active set goes back to the
\* top of its loop, the key is out of the active set and the counter is one
\* lower.
C6_ReleasedBeforeNextIteration ==
  [][\A w \in Workers :
       (Holding(w) /\ wk'[w].pc = "idle")
         => /\ wk[w].case_number \notin active'
            /\ count' = count - 1]_vars

StatusOf(db, id) ==
  IF get_case_by_id(db, id) = NoCase THEN NULL ELSE get_case_by_id(db, id).status

\* The finally block of process_single_case has run to its end.
ProcessingEnds(w) == wk[w].pc = "cleanup" /\ wk'[w].pc # "cleanup"

\* C7: the case whose search found no openable case page (the status
\* written at that point is CaseNotFoundOnPortal) has that status when its
\* processing has ended.
C7_NotFoundPersists ==
  [][\A w \in Workers :
       (ProcessingEnds(w)
        /\ StatusOf(cases, wk[w].case_id) = CASE_NOT_FOUND_ON_UNICOURT)
         => StatusOf(cases', wk[w].case_id) = CASE_NOT_FOUND_ON_UNICOURT]_vars

\* C8: the case whose session verification failed (the status written at
\* that point is SessionError) has that status when its processing has ended.
C8_SessionErrorPersists ==
  [][\A w \in Workers :
       (ProcessingEnds(w) /\ StatusOf(cases, wk[w].case_id) = SESSION_ERROR)
         => StatusOf(cases', wk[w].case_id) = SESSION_ERROR]_vars

\* C9: a detected dismissal notice takes the processor straight to its
\* finally block with VoluntaryDismissalSkipped, which is then the status
\* persisted; no party, resolver or extraction step comes in between.
C9_DismissalSkipsAll ==
  [][\A w \in Workers :
       /\ (wk[w].pc = "dismissal" /\ wk'[w].pc \notin {"dismissal", "parties"})
            => /\ wk'[w].pc = "cleanup"
               /\ wk'[w].final_case_status = VOLUNTARY_DISMISSAL_FOUND_SKIPPED
       /\ (wk[w].pc = "cleanup"
           /\ wk[w].final_case_status = VOLUNTARY_DISMISSAL_FOUND_SKIPPED
           /\ wk'[w] # wk[w])
            => /\ wk'[w].pc \in {"idle", "stopped", "release_wait"}
               /\ StatusOf(cases', wk[w].case_id) =
                    VOLUNTARY_DISMISSAL_FOUND_SKIPPED]_vars

\* C9 witness: a case was dropped for a dismissal notice and its worker is
\* back at the top of the loop.
C9_Witness ==
  /\ wk[1].pc = "idle"
  /\ \E c \in cases : /\ c.status = VOLUNTARY_DISMISSAL_FOUND_SKIPPED
                      /\ c.processed_documents_summary = <<>>
                      /\ c.associated_parties = {}

\* The resolver identified a relevant document: an entry of its summary has
\* a title it categorizes as final judgment or complaint.
ResolverIdentified(summ) ==
  \E j \in 1 .. Len(summ) :
     categorize_doc_title(summ[j].document_name) \in {FINAL_JUDGMENT, COMPLAINT}

\* C10: when the resolver returns nothing to extract from, the final status
\* is NoRelevantDocumentsFound if it identified no relevant document, and
\* CompletedWithErrors if it identified some.
C10_NoDocsStatus ==
  [][\A w \in Workers :
       (wk[w].pc = "resolve" /\ wk'[w].pc = "cleanup"
        /\ wk'[w].final_case_status # WORKER_ERROR)
         => wk'[w].final_case_status =
              IF ResolverIdentified(get_case_by_id(cases', wk[w].db_obj_id)
                                      .processed_documents_summary)
                THEN COMPLETED_WITH_ERRORS
                ELSE NO_FJ_NO_COMPLAINT_PDFS_FOUND]_vars


\* The extraction loop of worker w has run to its end in this step: the
\* final status was computed at case_processor.py:348-385.
LoopEnded(w) ==
  /\ wk[w].pc \in {"resolve", "llm"}
  /\ wk'[w].pc = "cleanup"
  /\ wk'[w].bundle # <<>>
  /\ wk'[w].final_case_status # WORKER_ERROR

\* The statuses of a document that do not count as an error.
TerminalOkStatuses ==
  {LLM_EXTRACTION_SUCCESS, LLM_EXTRACTION_FAILED,
   SKIPPED_PROCESSING_NOT_NEEDED, SKIPPED_REQUIRES_PAYMENT}

\* A document the resolver recorded as relevant (final judgment or
\* complaint) is left in an error status.
RelevantDocInError(summ) ==
  \E j \in 1 .. Len(summ) :
     /\ categorize_doc_title(summ[j].document_name) \in {FINAL_JUDGMENT, COMPLAINT}
     /\ summ[j].status \notin TerminalOkStatuses

SummaryOf(db, id) == get_case_by_id(db, id).processed_documents_summary

\* C11: when the extraction loop has ended and a relevant document of the
\* case is in a status other than extraction-success, extraction-found-
\* nothing, skipped-not-needed or skipped-requires-payment, the final status
\* is CompletedWithErrors.
C11_DocErrorGivesCompletedWithErrors ==
  [][\A w \in Workers :
       (LoopEnded(w) /\ RelevantDocInError(SummaryOf(cases', wk[w].db_obj_id)))
         => wk'[w].final_case_status = COMPLETED_WITH_ERRORS]_vars


\* Every essential fact of record c is resolved: original name, address,
\* registration state for a business, and an address for every associated
\* party when party addresses are extracted and parties exist.
EssentialFactsResolved(c) ==
  /\ c.original_creditor_name_from_doc # NULL
  /\ c.creditor_address_from_doc # NULL
  /\ (c.is_business => c.creditor_registration_state_from_doc # NULL)
  /\ (EXTRACT_ASSOCIATED_PARTY_ADDRESSES /\ c.associated_parties # {})
       => c.associated_parties \subseteq
            {c.associated_parties_data[i].name :
               i \in 1 .. Len(c.associated_parties_data)}

TerminalStatuses ==
  {COMPLETED_SUCCESSFULLY, COMPLETED_MISSING_DATA, COMPLETED_WITH_ERRORS,
   CASE_NOT_FOUND_ON_UNICOURT, VOLUNTARY_DISMISSAL_FOUND_SKIPPED,
   NO_FJ_NO_COMPLAINT_PDFS_FOUND, SESSION_ERROR, WORKER_ERROR}

\* C13: during a processing attempt the persisted status only moves forward:
\* from Processing it stays or becomes terminal, and a terminal status that
\* has been written is not replaced by a different one.
C13_TerminalStatusIsFinal ==
  [][\A w \in Workers :
       LET before == StatusOf(cases, wk[w].case_id)
           after == StatusOf(cases', wk[w].case_id)
       IN Processing(w)
            => /\ (before = PROCESSING
                     => after \in {PROCESSING} \cup TerminalStatuses)
               /\ (before \in TerminalStatuses => after = before)]_vars

\* C14: when a worker that started processing a case leaves the case (it
\* goes back to the top of its loop, directly or through the outer
\* handler), the case's record, if it still exists, has a terminal status.
C14_NoCaseLeftProcessing ==
  [][\A w \in Workers :
       (Holding(w) /\ wk[w].pc # "outer_sleep"
        /\ wk'[w].pc \in {"idle", "outer_sleep"}
        /\ get_case_by_id(cases', wk[w].case_id) # NoCase
        /\ get_case_by_id(cases', wk[w].case_id).case_number = wk[w].case_number)
         => StatusOf(cases', wk[w].case_id) \in TerminalStatuses]_vars


ExceptionAtCaseBoundary(w) ==
  /\ ProcessingEnds(w)
  /\ \/ wk[w].final_case_status = WORKER_ERROR
     \/ wk'[w].pc = "outer_sleep"

\* C16: an exception during the processing of a case that is not a session
\* failure is caught at the case boundary, leaves the case with the stored
\* status Worker_Error, and the worker's loop goes on.
C16_ExceptionGivesWorkerError ==
  [][\A w \in Workers :
       ExceptionAtCaseBoundary(w) =>
         /\ StatusOf(cases', wk[w].case_id) = WORKER_ERROR
         /\ wk'[w].pc # "stopped"]_vars

\* The processor found the session unusable for the case at hand: line 211
\* stored Failed_Initial_Login_Or_Session and returned into the finally
\* block.
SessionFailureDetected(w) ==
  /\ wk[w].pc = "cleanup"
  /\ StatusOf(cases, wk[w].case_id) = SESSION_ERROR

\* C17: when a session failure is detected while a case is processed, the
\* worker goes on to rebuild its session (and then processes the case
\* again) instead of leaving the case.
C17_SessionFailureIsRetried ==
  [][\A w \in Workers :
       SessionFailureDetected(w) /\ ProcessingEnds(w) =>
         wk'[w].pc = "reinit"]_vars

\* C18: for one dequeued entry the worker rebuilds its session at most
\* max_retries times and calls the processor at most max_retries + 1 times;
\* once the retries are used up, the end of the processing leaves the retry
\* loop, and an exception then has Worker_Error stored.
C18_RecoveryIsBounded ==
  [][\A w \in Workers :
       /\ wk'[w].retry_count <= max_retries
       /\ wk'[w].invocations <= max_retries + 1
       /\ ProcessingEnds(w) /\ wk[w].retry_count = max_retries =>
            /\ wk'[w].pc \notin {"reinit", "retry_sleep"}
            /\ ExceptionAtCaseBoundary(w) =>
                 StatusOf(cases', wk[w].case_id) = WORKER_ERROR]_vars

\* C19: after a session error the processor is called again only by way of
\* a completed rebuild (the 2 s pause that follows it); no step takes the
\* worker from the rebuild straight back into the processor.
C19_RetryOnlyAfterRebuild ==
  [][\A w \in Workers :
       wk[w].pc = "reinit" =>
         wk'[w].pc \in {"reinit", "retry_sleep", "outer_sleep"}]_vars

\* What first-writer-wins makes of one fact: a value already resolved stays
\* with its source title; an unresolved one takes the value the document
\* states, if any, and that document's title.
FirstWriter(old, oldTitle, new, newTitle) ==
  IF old # NULL THEN <<old, oldTitle>>
  ELSE IF new # NULL THEN <<new, newTitle>>
  ELSE <<old, oldTitle>>

EntryStatuses(summ, doc) ==
  {summ[j].status : j \in {k \in 1 .. Len(summ) :
                             /\ summ[k].document_name = doc.original_title
                             /\ summ[k].unicourt_doc_key = doc.unicourt_doc_key}}

PartyNamesIn(data) == {data[k].name : k \in 1 .. Len(data)}

\* The positions in a returned party list that state a non-empty address
\* for the name n.
StatedFor(ps, n) ==
  {k \in 1 .. Len(ps) : ps[k].name = n /\ ps[k].address # NULL}

LLMOutcomes ==
  {LLM_EXTRACTION_SUCCESS, LLM_EXTRACTION_FAILED, LLM_PROCESSING_ERROR,
   LLM_PREPARATION_FAILED, SKIPPED_PROCESSING_NOT_NEEDED}

RECURSIVE Flatten(_)
Flatten(ss) == IF ss = <<>> THEN <<>> ELSE Head(ss) \o Flatten(Tail(ss))

\* The free documents with a relevant title that a Paid section lists, in
\* the order of the page.
FreeDocsOf(page) ==
  SelectSeq(page.paid,
            LAMBDA r : r.err = "none" /\ r.free
                       /\ categorize_doc_title(r.title) # UNKNOWN)

EntriesBeforeOrdered(page) ==
  Len(ScanPaid(page.paid, 1, [summ |-> <<>>, to_order |-> <<>>]).summ)

\* The chunks after the first whose ordering failed.
FailedLaterChunks(page) ==
  {k \in 2 .. NumChunks(Len(FreeDocsOf(page))) : page.order[k] # "ok"}

\* C25: a failure while a chunk is ordered leaves the outcomes of the
\* documents of earlier chunks as they are: when the resolver has run on a
\* page on which chunk k failed, the stored summary holds, for every
\* document of the chunks before k, the entry the resolver gives it when
\* chunk k is ordered without a failure.
C25_EarlierChunksKeepOutcome ==
  [][\A w \in Workers :
       (wk[w].pc = "resolve" /\ wk'[w].pc # "resolve") =>
         \A page \in {q \in ChunkPages \cup RaisePages :
                        FailedLaterChunks(q) # {}} :
           ProcResolve(w, page, FALSE) =>
             \A k \in FailedLaterChunks(page) :
               LET ref == identify_and_process_documents_on_case_page(
                            [page EXCEPT !.order[k] = "ok"]).summ
                   got == get_case_by_id(cases', wk[w].db_obj_id)
                            .processed_documents_summary
                   off == EntriesBeforeOrdered(page)
               IN \A i \in 1 .. ((k - 1) * PAID_DOC_ORDER_CHUNK_SIZE) :
                    /\ Len(got) >= off + i
                    /\ got[off + i] = ref[off + i]]_vars

\* C26: the summary the resolver returns, which is the one that is stored,
\* has no entry in an intermediate ordering status: no stored summary ever
\* holds Identified_For_Processing or Ordering_Completed.
C26_NoIntermediateOrderingStatus ==
  \A c \in cases :
    \A j \in 1 .. Len(c.processed_documents_summary) :
      c.processed_documents_summary[j].status
        \notin {IDENTIFIED_FOR_PROCESSING, ORDERING_COMPLETED}

\* The resolver has returned after an ordering attempt, and the entry of a
\* document it ordered stands at Ordering_Failed.
C26_Witness ==
  \E w \in Workers :
    /\ wk[w].pc = "cleanup"
    /\ wk[w].chunks # <<>>
    /\ LET summ == get_case_by_id(cases, wk[w].db_obj_id)
                     .processed_documents_summary
       IN \E j \in 1 .. Len(summ) :
            /\ summ[j].document_name = wk[w].chunks[1][1].title
            /\ summ[j].status = ORDERING_FAILED

\* A page on which a free relevant document is ordered from the Paid
\* section and then listed, under the same title, in the CrowdSourced
\* section.
OrderedThenListed(q) ==
  /\ q.tab_ok
  /\ Len(q.paid) = 1
  /\ q.paid[1].err = "none" /\ q.paid[1].free /\ q.paid[1].chk
  /\ categorize_doc_title(q.paid[1].title) # UNKNOWN
  /\ q.order[1] = "ok"
  /\ ~q.banner
  /\ Len(q.crowd) = 1
  /\ q.crowd[1].err = "none"
  /\ q.crowd[1].title = q.paid[1].title

\* C27: a free document that is ordered from the Paid section and then
\* handled in the CrowdSourced section has one entry in the stored summary,
\* and that entry carries the outcome of the download, not the outcome of
\* the ordering.
C27_OneEntryPerDocument ==
  [][\A w \in Workers :
       wk[w].pc = "resolve" =>
         \A page \in {q \in CasePages : OrderedThenListed(q)} :
           ProcResolve(w, page, FALSE) =>
             LET summ == get_case_by_id(cases', wk[w].db_obj_id)
                           .processed_documents_summary
                 hits == {k \in 1 .. Len(summ) :
                            summ[k].document_name = page.paid[1].title}
             IN /\ Cardinality(hits) = 1
                /\ \A k \in hits :
                     summ[k].status \in
                       {DOWNLOAD_SUCCESS, DOWNLOAD_FAILED} \cup LLMOutcomes]_vars

\* The document statuses that are steps on the way, not outcomes.
IntermediateDocStatuses ==
  {IDENTIFIED_FOR_PROCESSING, ORDERING_COMPLETED, DOWNLOAD_SUCCESS}

\* The titles of the documents the resolver handed on: those it put in an
\* ordering attempt and those it downloaded.
HandledTitles(me) ==
  {Flatten(me.chunks)[k].title : k \in 1 .. Len(Flatten(me.chunks))}
  \cup {me.bundle[k].original_title : k \in 1 .. Len(me.bundle)}

\* C28: when a processing attempt ends with the case at a terminal status,
\* no entry of the stored document summary is left at
\* Identified_For_Processing, Ordering_Completed or Download_Success, and
\* every document the resolver ordered or downloaded has an entry.
C28_TerminalCaseHasTerminalDocuments ==
  [][\A w \in Workers :
       ProcessingEnds(w) =>
         \A c \in cases' :
           (c.id = wk[w].db_obj_id /\ c.status \in TerminalStatuses) =>
             LET summ == c.processed_documents_summary
             IN /\ \A j \in 1 .. Len(summ) :
                     summ[j].status \notin IntermediateDocStatuses
                /\ \A t \in HandledTitles(wk[w]) :
                     \E j \in 1 .. Len(summ) : summ[j].document_name = t]_vars

\* A page on which the ordering of a chunk or the download of a relevant
\* document fails.
HasDocumentFailure(q) ==
  /\ q.tab_ok
  /\ \/ \E k \in 1 .. NumChunks(Len(FreeDocsOf(q))) : q.order[k] # "ok"
     \/ \E k \in 1 .. Len(q.crowd) :
          /\ q.crowd[k].err = "none" /\ ~q.crowd[k].dl
          /\ categorize_doc_title(q.crowd[k].title) # UNKNOWN

\* The titles of the relevant documents a page lists.
ListedTitles(q) ==
  {FreeDocsOf(q)[k].title : k \in 1 .. Len(FreeDocsOf(q))}
  \cup {q.crowd[k].title :
          k \in {m \in 1 .. Len(q.crowd) :
                   /\ q.crowd[m].err = "none"
                   /\ categorize_doc_title(q.crowd[m].title) # UNKNOWN}}

\* The extraction results that are a failure of the document.
FailedOuts ==
  {LLMOut(k, NULL, NULL, NULL, <<>>) : k \in {"error", "conv_failed", "raise"}}

\* C29: a failure of the ordering, the download or the extraction of one
\* document stays inside the resolver and the extraction loop: after the step
\* in which it happens the attempt is not on its way to Generic_Case_Error,
\* the document has an entry in the stored summary (for an extraction, the
\* entry with the outcome of that extraction), and the documents after it
\* are still handled.
C29_DocumentFailuresStayInside ==
  [][\A w \in Workers :
       /\ wk[w].pc = "resolve" =>
            \A page \in {q \in ChunkPages \cup RaisePages :
                           HasDocumentFailure(q)} :
              ProcResolve(w, page, FALSE) =>
                LET summ == get_case_by_id(cases', wk[w].db_obj_id)
                              .processed_documents_summary
                IN /\ wk'[w].final_case_status # WORKER_ERROR
                   /\ \A t \in ListedTitles(page) :
                        \E k \in 1 .. Len(summ) : summ[k].document_name = t
       /\ wk[w].pc = "llm" =>
            \A out \in FailedOuts :
              ProcLLM(w, out) =>
                LET summ == get_case_by_id(cases', wk[w].db_obj_id)
                              .processed_documents_summary
                    me == wk[w]
                IN /\ wk'[w].final_case_status # WORKER_ERROR
                   /\ EntryStatuses(summ, me.bundle[me.idx])
                        = {LLMDocStatus(out.kind)}
                   /\ \/ wk'[w].pc = "llm" /\ wk'[w].idx = me.idx + 1
                      \/ \A k \in (me.idx + 1) .. Len(me.bundle) :
                           EntryStatuses(summ, me.bundle[k])
                             \subseteq LLMOutcomes]_vars

\* C30: once process_single_case has returned, the temporary download
\* directory of the case is gone and the case page is closed: a directory
\* exists only for a key for which a call of process_single_case is under
\* way, and only a worker inside the call holds an open case page.
C30_CleanupOnEveryReturn ==
  /\ \A k \in tempDirs :
       \E w \in Workers : Processing(w) /\ wk[w].case_number = k
  /\ \A w \in Workers : wk[w].case_page => Processing(w)

\* C31: the clean-up of the temporary directory of a case is idempotent:
\* when a processing attempt has ended and its clean-up has run, running the
\* clean-up once more for the same key, whether or not a removal would
\* succeed, reports no error, changes nothing and leaves no directory for
\* the key.
C31_CleanupIsIdempotent ==
  [][\A w \in Workers :
       ProcessingEnds(w) =>
         \A rm_ok \in BOOLEAN :
           LET again == remove_temp_dir(tempDirs', wk[w].case_number, rm_ok)
           IN /\ ~again.error
              /\ again.dirs = tempDirs'
              /\ wk[w].case_number \notin again.dirs]_vars

\* The clean-up has run a second time for one queue entry (the attempt was
\* retried), and the directory is gone.
C31_Witness ==
  \E w \in Workers :
    /\ wk[w].invocations = 2
    /\ ~Processing(w)
    /\ wk[w].case_number \notin tempDirs

\* A worker has taken an entry off the queue and has neither finished its
\* processing nor put the entry back.
HoldsUnfinishedCase(w) ==
  wk[w].pc \in {"dequeued", "lock_wait", "reinit", "retry_sleep"} \cup ProcPcs

\* C32: a restart request is honoured exactly when the queue is empty and no
\* task is counted, and never while a worker holds a case it took off the
\* queue and has not finished.
C32_RestartOnlyWhenIdle ==
  [][request_server_restart =>
       /\ shutting_down' <=> (queue = <<>> /\ count = 0)
       /\ resp'.http = IF shutting_down' THEN 202 ELSE 409
       /\ shutting_down' => \A w \in Workers : ~HoldsUnfinishedCase(w)]_vars

\* C33: once the shutdown flag is set, every submit call that arrives is
\* answered 503 and adds no record, no queue entry and no suspended request.
C33_NoSubmissionAfterShutdown ==
  [][shutting_down =>
       \A payload \in PoolPayloads :
         Submit(payload, MaxPending) =>
           /\ resp'.http = 503
           /\ cases' = cases
           /\ queue' = queue
           /\ reqs' = reqs]_vars

\* A submit call was rejected because the service is shutting down.
C33_Witness == shutting_down /\ resp.http = 503

\* C34: no worker is processing a case whose entry it took off the queue
\* when the shutdown flag was already set.
C34_NoPullAfterShutdown ==
  \A w \in Workers : Processing(w) => ~wk[w].taken_in_shutdown

\* C35: on shutdown the task of a worker that holds a case in flight is
\* cancelled only when the grace period has elapsed, that is in the step in
\* which the wait for the workers times out, never in the step that sets the
\* flag; and when the shutdown is over every worker task has ended.
C35_GraceBeforeCancel ==
  [][/\ \A w \in Workers :
          (HoldsUnfinishedCase(w) /\ ~wk[w].cancelled /\ wk'[w].cancelled) =>
            (shutting_down /\ lifespan = "waiting")
     /\ lifespan' = "down" => \A w \in Workers : wk'[w].pc = "stopped"]_vars

\* C36: no task is suspended while it holds active_cases_lock or
\* processing_count_lock: at every suspension point, which is what a state
\* is, no worker and no request handler is the holder of a lock.
C36_NoLockAcrossSuspension ==
  /\ lockHolder = 0
  /\ \A w \in Workers : wk[w].pc # "requeue_sleep"

\* A call of close_worker_browser_resources in which all three close
\* operations are due (open page, connected browser) and at least one of
\* them raises.
CloseWithException(c) ==
  c.h.page = "open" /\ c.h.connected /\ c.h.raises # {}

\* C37: close_worker_browser_resources never raises: when the close of the
\* dashboard page, of the context or of the browser raises, the call still
\* returns normally, all three close operations were attempted and the
\* handler's dashboard page reference is None.
C37_CloseNeverRaises ==
  \A w \in Workers :
    \A i \in DOMAIN wk[w].last_close :
      LET c == wk[w].last_close[i] IN
      CloseWithException(c) =>
        /\ ~c.r.raised
        /\ c.r.attempted = CloseOps
        /\ c.r.dashboard_page_for_worker = "none"

\* A call of search_and_open_case_page in which the search by name was
\* performed and listed nothing, at once and after the delay.
NameSearchEmpty(c) ==
  c.p.name_search_ok /\ c.p.by_name = 0 /\ c.p.by_name_later = 0

\* C38: when the search by case name yields no results, also after the
\* delayed recount, search_and_open_case_page goes on to a search by case
\* number and opens the case when that search finds it; it reports
\* not-found only when the search by number lists nothing either.
C38_FallbackToCaseNumber ==
  \A w \in Workers :
    \A i \in DOMAIN wk[w].last_search :
      LET c == wk[w].last_search[i] IN
      NameSearchEmpty(c) =>
        /\ Len(c.r.searches) >= 2
        /\ (c.p.by_number > 0 /\ c.p.opens) => c.r.page
        /\ (~c.r.page /\ c.p.opens) => c.p.by_number = 0

\* C39: the title classifier is one function of the title: the type the
\* case processor infers from a summary entry equals the type the document
\* resolver gave the title when it recorded the entry, so that every
\* document recorded as relevant counts as relevant in the decisions taken
\* from the summary.
C39_OneTitleClassifier ==
  \A c \in cases :
    \A j \in DOMAIN c.processed_documents_summary :
      doc_type_from_summary(c.processed_documents_summary[j])
        = categorize_doc_title(c.processed_documents_summary[j].document_name)

\* C40: in every reachable state the active-task counter is between 0 and
\* the number of workers, the active set holds at most that many keys, and
\* the counter equals the size of the active set (no state lies between a
\* worker's two updates: the add and the increment, and the remove and the
\* decrement, are made without a suspension in between).
C40_CounterMatchesActiveSet ==
  /\ count \in 0 .. Cardinality(Workers)
  /\ Cardinality(active) <= Cardinality(Workers)
  /\ count = Cardinality(active)

========================================================================
